---- MODULE Spec2Model ----
(***************************************************************************)
(* A model of the music-listening reconciliation pipeline:                 *)
(*   spotify_data_cleaner.py      (majority-source normalizer + anomalies) *)
(*   apple_music_cleaner.py       (minority-source normalizer + resolver)  *)
(*   consolidate_streaming_data.py (consolidator)                          *)
(*   generate_lifetime_stats.py, generate_annual_recaps.py,                *)
(*   generate_artist_summary.py   (aggregation)                            *)
(*   wrapped_reimagined.py        (the command line that runs the scripts) *)
(*                                                                         *)
(* Text that the code inspects character by character (artist names,      *)
(* track names, track descriptions) is a sequence of one-character        *)
(* strings.  Text that the code only compares for equality is a string.   *)
(* JSON null / Python None is the string null for string-valued fields     *)
(* and the one-element sequence NoneText for text fields.                  *)
(***************************************************************************)
EXTENDS Integers, Sequences, FiniteSets, TLC

VARIABLES
    pc,              \* the stage the run is at
    spotify_files,   \* raw majority-source files: a sequence of record lists
    apple_rows,      \* raw minority-source CSV rows
    spotify_clean,   \* spotify_full_streaming_data_clean.json
    apple_clean,     \* apple_music_full_streaming_data_clean.json
    consolidated,    \* consolidated_full_streaming_data_clean.json
    mapping_summary, \* the artist mappings of the minority-source run
    raised,          \* how each stage ended: "none" (it reached its write), the
                     \* exception that ended it, or a refusal to run
    probe,           \* input and result of the pure function under study
    env,             \* what a run finds: the command-line flag, whether an
                     \* Apple Music CSV is there, and the wall clock
    insights,        \* lifetime_streaming_stats.json, annual_recaps.json,
                     \* artist_summary.json
    returned         \* the return code of each script the command line has
                     \* run, and what process_all returned

vars == <<pc, spotify_files, apple_rows, spotify_clean, apple_clean,
          consolidated, mapping_summary, raised, probe, env, insights, returned>>

-----------------------------------------------------------------------------
(* Values *)

null == "null"

NoneText == <<"None">>

\* A file that does not exist.  A written file is [exists |-> TRUE, data |-> list].
NoFile == [exists |-> FALSE, data |-> <<>>]

File(data) == [exists |-> TRUE, data |-> data]

\* F applied to the value of x: Python evaluates an expression once and binds
\* the result, and so does this.
WithValue(x, F(_)) == CHOOSE r \in {F(v) : v \in {x}} : TRUE

\* Python truthiness of an optional text value: neither None nor "".
TruthyText(t) == t # NoneText /\ t # <<>>

\* Python truthiness of an optional string value.
TruthyStr(s) == s # null /\ s # ""

-----------------------------------------------------------------------------
(* Timestamps.                                                             *)
(* A ts string is [k, y, sec]: k is its shape, y its four-digit year and   *)
(* sec the seconds elapsed in that year.  The shapes are                   *)
(*   "Z"      2023-01-01T12:00:00Z                                         *)
(*   "Off"    2023-01-01T12:00:00+00:00                                    *)
(*   "Naive"  2023-01-01T12:00:00           (no zone designator)           *)
(*   "Bad"    a non-empty string that is no timestamp ("junk")             *)
(*   "Empty"  "" (also what .get('ts', '') gives for a missing key)        *)
(*   "Null"   JSON null                                                    *)
(* The modelled instants lie further than 30 s from a year boundary.       *)
(***************************************************************************)

Ts(k, y, sec) == [k |-> k, y |-> y, sec |-> sec]

TsBad == Ts("Bad", 0, 0)

TsEmpty == Ts("Empty", 0, 0)

TsNull == Ts("Null", 0, 0)

WellFormed(ts) == ts.k \in {"Z", "Off", "Naive"}

TruthyTs(ts) == ts.k \notin {"Empty", "Null"}

\* A datetime: aware (carries tzinfo) or naive.
DateTime(aware, y, sec) == [aware |-> aware, y |-> y, sec |-> sec]

\* datetime.min
DateTimeMin == DateTime(FALSE, 1, 0)

\* Comparing or subtracting an aware and a naive datetime raises TypeError.
Comparable(a, b) == a.aware = b.aware

DtLess(a, b) == a.y < b.y \/ (a.y = b.y /\ a.sec < b.sec)

DtLeq(a, b) == ~DtLess(b, a)

\* Rank of the text that follows the seconds: "" < "+00:00" < "Z" in str order.
SuffixRank(k) == CASE k = "Naive" -> 0 [] k = "Off" -> 1 [] OTHER -> 2

\* Python's str < on two ts strings (neither is None).
StrLess(a, b) ==
    CASE a.k = "Empty" -> b.k # "Empty"
      [] b.k = "Empty" -> FALSE
      [] a.k = "Bad"   -> FALSE
      [] b.k = "Bad"   -> TRUE
      [] OTHER -> \/ a.y < b.y
                  \/ a.y = b.y /\ a.sec < b.sec
                  \/ a.y = b.y /\ a.sec = b.sec /\ SuffixRank(a.k) < SuffixRank(b.k)

\* parse_timestamp: strptime for a string ending in Z (a naive datetime),
\* fromisoformat otherwise (aware when the string carries an offset); any
\* exception, among them None.endswith, gives datetime.min.
parse_timestamp(ts) ==
    CASE ts.k = "Z"     -> DateTime(FALSE, ts.y, ts.sec)
      [] ts.k = "Off"   -> DateTime(TRUE, ts.y, ts.sec)
      [] ts.k = "Naive" -> DateTime(FALSE, ts.y, ts.sec)
      [] OTHER          -> DateTimeMin

KeyLess_ByString(key, a, b) == StrLess(a.ts, b.ts)

\* The order a sort key induces on two records: the ts string ("str", the
\* cleaners' key) or the parsed datetime ("datetime", the consolidator's key).
KeyLess(key, a, b) ==
    IF key = "str" THEN StrLess(a.ts, b.ts)
    ELSE DtLess(parse_timestamp(a.ts), parse_timestamp(b.ts))

SortedPlace_TiesReversed(key, s, i) ==
    1 + Cardinality({j \in 1..Len(s) :
                        \/ KeyLess(key, s[j], s[i])
                        \/ j > i /\ ~KeyLess(key, s[i], s[j])})

\* The place of s[i] in the sorted list.  list.sort(key=...) is stable: s[i]
\* follows the elements with a smaller key and the earlier ones with an equal key.
SortedPlace(key, s, i) ==
    1 + Cardinality({j \in 1..Len(s) :
                        \/ KeyLess(key, s[j], s[i])
                        \/ j < i /\ ~KeyLess(key, s[i], s[j])})

StableSort(key, list) ==
    WithValue(list, LAMBDA s :
      WithValue([i \in 1..Len(s) |-> SortedPlace(key, s, i)], LAMBDA place :
        [p \in 1..Len(s) |-> s[CHOOSE i \in 1..Len(s) : place[i] = p]]))

\* sort(key=lambda x: x.get('ts', '')): a None key among two or more raises TypeError.
TsSortRaises(records) ==
    Len(records) >= 2 /\ \E i \in 1..Len(records) : records[i].ts.k = "Null"

-----------------------------------------------------------------------------
(* spotify_data_cleaner.py *)

CutoffYear == 2016

SkipThresholdMs == 30000

is_song(record) ==
    LET has_track_uri   == record.spotify_track_uri # null
        has_track_name  == record.master_metadata_track_name # NoneText
        has_artist_name == record.master_metadata_album_artist_name # NoneText
        is_not_episode  == record.episode_name = null /\ record.spotify_episode_uri = null
        is_not_audiobook == record.audiobook_title = null /\ record.audiobook_uri = null
    IN  has_track_uri /\ has_track_name /\ has_artist_name
        /\ is_not_episode /\ is_not_audiobook

is_before_2016_OffByOne(ts) ==
    IF WellFormed(ts) THEN ts.y < CutoffYear - 1 ELSE FALSE

\* fromisoformat(timestamp.replace('Z', '+00:00')): ValueError gives False.
is_before_2016(ts) ==
    IF WellFormed(ts) THEN ts.y < CutoffYear ELSE FALSE

SkippedTooShort_Inclusive(record) ==
    record.skipped /\ record.ms_played <= SkipThresholdMs

SkippedTooShort(record) ==
    record.skipped /\ record.ms_played < SkipThresholdMs

should_exclude_record(record) ==
    \/ record.incognito_mode
    \/ SkippedTooShort(record)
    \/ TruthyTs(record.ts) /\ is_before_2016(record.ts)

\* An IPv4 address is [net, host]: its first three octets with their dots, and
\* its last octet.  NoIp is None.
Ip(net, host) == [net |-> net, host |-> host]

NoIp == Ip(null, null)

suspicious_ips == {Ip("173.249.43.", "234")}

suspicious_ranges == {"173.249.43."}

is_suspicious_ip(ip_addr) ==
    ip_addr \in suspicious_ips \/ ip_addr.net \in suspicious_ranges

Wakeem == <<"W", "a", "k", "e", "e", "m">>

fake_artists == {Wakeem}

fake_albums == {"War for Honor", "War of Honor"}

is_fake_artist_or_album(artist, album) ==
    \/ TruthyText(artist) /\ artist \in fake_artists
    \/ TruthyStr(album) /\ album \in fake_albums

is_suspicious_stream(record) ==
    \/ record.conn_country = "ZZ"
    \/ record.ip_addr # NoIp /\ is_suspicious_ip(record.ip_addr)
    \/ is_fake_artist_or_album(record.master_metadata_album_artist_name,
                               record.master_metadata_album_album_name)

GroupThreshold == 100

RapidGapSeconds == 30

\* What a function returns, or the exception it lets escape.
Ok(data) == [raised |-> "none", data |-> data]

Raise(e) == [raised |-> e, data |-> <<>>]

\* A record takes part in the grouping when artist and track are both truthy.
Grouped(record) ==
    /\ TruthyText(record.master_metadata_album_artist_name)
    /\ TruthyText(record.master_metadata_track_name)

\* key = f"{artist}|||{track}"
GroupKey(record) ==
    record.master_metadata_album_artist_name \o <<"|", "|", "|">>
        \o record.master_metadata_track_name

GroupOf(records, key) ==
    SelectSeq(records, LAMBDA r : Grouped(r) /\ GroupKey(r) = key)

\* datetime.fromisoformat(ts.replace('Z', '+00:00')) succeeds on a well-formed
\* string; the result is aware unless the string has no zone designator.
IsoAware(ts) == ts.k \in {"Z", "Off"}

GapBelow_Positive(prev, curr, seconds) ==
    /\ curr.y = prev.y
    /\ curr.sec - prev.sec > 0
    /\ curr.sec - prev.sec < seconds

\* (curr_dt - prev_dt).total_seconds() < 30
GapBelow(prev, curr, seconds) ==
    \/ curr.y < prev.y
    \/ curr.y = prev.y /\ curr.sec - prev.sec < seconds

\* The adjacent pair (i-1, i) of a sorted group is inspected when both ts are
\* truthy and both parse.
PairParsed(g, i) ==
    /\ TruthyTs(g[i-1].ts) /\ TruthyTs(g[i].ts)
    /\ WellFormed(g[i-1].ts) /\ WellFormed(g[i].ts)

PairRapid(g, i) ==
    PairParsed(g, i) /\ GapBelow(g[i-1].ts, g[i].ts, RapidGapSeconds)

rapid_plays(g) == Cardinality({i \in 2..Len(g) : PairRapid(g, i)})

\* aware - naive raises TypeError, which the loop does not catch.
PairRaises(g, i) ==
    PairParsed(g, i) /\ IsoAware(g[i-1].ts) # IsoAware(g[i].ts)

GroupVerdict_AtLeast(group_records) ==
    WithValue(group_records, LAMBDA g :
      IF Len(g) < GroupThreshold THEN "kept"
      ELSE IF TsSortRaises(g) THEN "raises"
      ELSE WithValue(StableSort("str", g), LAMBDA sg :
             IF \E i \in 2..Len(sg) : PairRaises(sg, i) THEN "raises"
             ELSE IF 2 * rapid_plays(sg) > Len(sg) THEN "anomalous"
             ELSE "kept"))

\* The verdict on one group: "kept", "anomalous" (rapid_plays >
\* len(group_records) * 0.5 in a group above the threshold) or "raises".
GroupVerdict(group_records) ==
    WithValue(group_records, LAMBDA g :
      IF Len(g) <= GroupThreshold THEN "kept"
      ELSE IF TsSortRaises(g) THEN "raises"
      ELSE WithValue(StableSort("str", g), LAMBDA sg :
             IF \E i \in 2..Len(sg) : PairRaises(sg, i) THEN "raises"
             ELSE IF 2 * rapid_plays(sg) > Len(sg) THEN "anomalous"
             ELSE "kept"))

GroupKeys(records) ==
    {GroupKey(records[i]) : i \in {j \in 1..Len(records) : Grouped(records[j])}}

detect_streaming_anomalies(list) ==
    WithValue(list, LAMBDA records :
      WithValue([k \in GroupKeys(records) |-> GroupVerdict(GroupOf(records, k))],
        LAMBDA verdict :
          IF \E k \in DOMAIN verdict : verdict[k] = "raises" THEN Raise("TypeError")
          ELSE Ok(SelectSeq(records,
                     LAMBDA r : ~(Grouped(r) /\ verdict[GroupKey(r)] = "anomalous")))))

RetainedByRules(record) ==
    is_song(record) /\ ~should_exclude_record(record) /\ ~is_suspicious_stream(record)

Tagged(record, provider) == [record EXCEPT !.provider = provider]

TagAll(records, provider) ==
    [i \in 1..Len(records) |-> Tagged(records[i], provider)]

\* process_streaming_file on the decoded content of one file.
process_streaming_file(data) ==
    detect_streaming_anomalies(TagAll(SelectSeq(data, RetainedByRules), "Spotify"))

RECURSIVE Concat(_, _)
Concat(lists, n) ==
    IF n = 0 THEN <<>> ELSE Concat(lists, n - 1) \o lists[n].data

\* process_spotify_data up to the write: the records it hands to json.dump.
process_spotify_data(files) ==
    WithValue([f \in 1..Len(files) |-> process_streaming_file(files[f])],
      LAMBDA cleaned :
        IF \E f \in 1..Len(cleaned) : cleaned[f].raised # "none"
        THEN Raise("TypeError")
        ELSE WithValue(Concat(cleaned, Len(cleaned)), LAMBDA all_cleaned_records :
               IF TsSortRaises(all_cleaned_records) THEN Raise("TypeError")
               ELSE Ok(StableSort("str", all_cleaned_records))))

-----------------------------------------------------------------------------
(* apple_music_cleaner.py: text *)

\* The characters of the model's texts in code-point order, and the upper-case
\* letters among them with their lower-case forms.
CodePointOrder ==
    <<" ", "-", "2", "4", "A", "H", "Q", "S", "W", "Y",
      "a", "b", "e", "g", "h", "i", "k", "m", "n", "o", "q", "s", "t", "u", "w", "y", "|">>

UpperCase == <<"A", "H", "Q", "S", "W", "Y">>

LowerCase == <<"a", "h", "q", "s", "w", "y">>

Digits == {"2", "4"}

CodePoint(c) == CHOOSE i \in 1..Len(CodePointOrder) : CodePointOrder[i] = c

\* str.lower()
LowerChar(c) ==
    IF \E i \in 1..Len(UpperCase) : UpperCase[i] = c
    THEN LowerCase[CHOOSE i \in 1..Len(UpperCase) : UpperCase[i] = c]
    ELSE c

Lower(t) == [i \in 1..Len(t) |-> LowerChar(t[i])]

\* Python's str < on two texts.
RECURSIVE TextLess(_, _)
TextLess(a, b) ==
    IF b = <<>> THEN FALSE
    ELSE IF a = <<>> THEN TRUE
    ELSE IF a[1] # b[1] THEN CodePoint(a[1]) < CodePoint(b[1])
    ELSE TextLess(Tail(a), Tail(b))

\* sorted(list(artists)) of a set of distinct texts.
SortedTexts(S) ==
    WithValue(S, LAMBDA T :
      [p \in 1..Cardinality(T) |->
          CHOOSE t \in T : Cardinality({u \in T : TextLess(u, t)}) = p - 1])

\* str.strip(): the only white space of the model is the blank.
RECURSIVE LStrip(_)
LStrip(t) == IF t # <<>> /\ t[1] = " " THEN LStrip(Tail(t)) ELSE t

RECURSIVE RStrip(_)
RStrip(t) ==
    IF t # <<>> /\ t[Len(t)] = " " THEN RStrip(SubSeq(t, 1, Len(t) - 1)) ELSE t

Strip(t) == RStrip(LStrip(t))

\* str.isdigit(): non-empty and all digits.
IsDigit(t) == t # <<>> /\ \A i \in 1..Len(t) : t[i] \in Digits

Separator == <<" ", "-", " ">>

SeparatorAt(t, i) ==
    i + Len(Separator) - 1 <= Len(t) /\ SubSeq(t, i, i + Len(Separator) - 1) = Separator

HasSeparator(t) == \E i \in 1..Len(t) : SeparatorAt(t, i)

FirstSeparator(t) ==
    CHOOSE i \in 1..Len(t) : SeparatorAt(t, i) /\ \A j \in 1..(i - 1) : ~SeparatorAt(t, j)

parse_track_description_LastSeparator(track_description) ==
    IF ~TruthyText(track_description) THEN [artist |-> NoneText, song |-> NoneText]
    ELSE IF IsDigit(track_description) THEN [artist |-> NoneText, song |-> NoneText]
    ELSE IF HasSeparator(track_description)
    THEN LET i == CHOOSE i \in 1..Len(track_description) :
                      /\ SeparatorAt(track_description, i)
                      /\ \A j \in (i + 1)..Len(track_description) :
                            ~SeparatorAt(track_description, j)
         IN  [artist |-> Strip(SubSeq(track_description, 1, i - 1)),
              song |-> Strip(SubSeq(track_description, i + Len(Separator),
                                    Len(track_description)))]
    ELSE [artist |-> NoneText, song |-> Strip(track_description)]

\* parse_track_description: (artist, song_name); split(' - ', 1) cuts at the
\* first separator only.
parse_track_description(track_description) ==
    IF ~TruthyText(track_description) THEN [artist |-> NoneText, song |-> NoneText]
    ELSE IF IsDigit(track_description) THEN [artist |-> NoneText, song |-> NoneText]
    ELSE IF HasSeparator(track_description)
    THEN LET i == FirstSeparator(track_description)
         IN  [artist |-> Strip(SubSeq(track_description, 1, i - 1)),
              song |-> Strip(SubSeq(track_description, i + Len(Separator),
                                    Len(track_description)))]
    ELSE [artist |-> NoneText, song |-> Strip(track_description)]

-----------------------------------------------------------------------------
(* apple_music_cleaner.py: similarity and fuzzy matching *)

\* The length of the common run of a from i and b from j, within ahi and bhi.
RECURSIVE RunLength(_, _, _, _, _, _)
RunLength(a, b, i, j, ahi, bhi) ==
    IF i <= ahi /\ j <= bhi /\ a[i] = b[j]
    THEN 1 + RunLength(a, b, i + 1, j + 1, ahi, bhi)
    ELSE 0

\* SequenceMatcher.find_longest_match without junk: the longest block of
\* a[alo..ahi] and b[blo..bhi]; among the longest the one starting earliest
\* in a, and among those the one starting earliest in b.
find_longest_match(a, b, alo, ahi, blo, bhi) ==
    LET blocks == {[i |-> i, j |-> j, k |-> RunLength(a, b, i, j, ahi, bhi)] :
                       i \in alo..ahi, j \in blo..bhi}
        Better(x, y) == \/ x.k > y.k
                        \/ x.k = y.k /\ x.i < y.i
                        \/ x.k = y.k /\ x.i = y.i /\ x.j < y.j
    IN  CHOOSE x \in blocks : \A y \in blocks \ {x} : Better(x, y)

\* The total size of SequenceMatcher.get_matching_blocks.
RECURSIVE MatchedSize(_, _, _, _, _, _)
MatchedSize(a, b, alo, ahi, blo, bhi) ==
    IF alo > ahi \/ blo > bhi THEN 0
    ELSE WithValue(find_longest_match(a, b, alo, ahi, blo, bhi), LAMBDA m :
           IF m.k = 0 THEN 0
           ELSE m.k + MatchedSize(a, b, alo, m.i - 1, blo, m.j - 1)
                    + MatchedSize(a, b, m.i + m.k, ahi, m.j + m.k, bhi))

\* A score is the fraction n/d; floats of the code are these fractions.
Score(n, d) == [n |-> n, d |-> d]

ScoreZero == Score(0, 1)

ScoreOne == Score(1, 1)

ScoreGreater(p, q) == p.n * q.d > q.n * p.d

ScoreEqual(p, q) == p.n * q.d = q.n * p.d

MeetsThreshold_Strict(p) == 5 * p.n > 4 * p.d

\* score >= 0.8
MeetsThreshold(p) == 5 * p.n >= 4 * p.d

\* similarity: SequenceMatcher(None, a.lower(), b.lower()).ratio() = 2.0*M/T.
similarity(a, b) ==
    WithValue(Lower(a), LAMBDA la :
      WithValue(Lower(b), LAMBDA lb :
        IF Len(la) + Len(lb) = 0 THEN ScoreOne
        ELSE Score(2 * MatchedSize(la, lb, 1, Len(la), 1, Len(lb)),
                   Len(la) + Len(lb))))

\* The loop of fuzzy_match_artist: the first artist of the list with the
\* greatest score, or the apple artist itself when no score exceeds 0.0.
BestMatch(apple_artist, spotify_artists) ==
    WithValue([i \in 1..Len(spotify_artists) |->
                   similarity(apple_artist, spotify_artists[i])],
      LAMBDA score :
        IF \A i \in 1..Len(score) : ~ScoreGreater(score[i], ScoreZero)
        THEN [match |-> apple_artist, score |-> ScoreZero]
        ELSE LET best == CHOOSE i \in 1..Len(score) :
                             /\ \A j \in 1..Len(score) : ~ScoreGreater(score[j], score[i])
                             /\ \A j \in 1..(i - 1) : ScoreGreater(score[i], score[j])
             IN  [match |-> spotify_artists[best], score |-> score[best]])

fuzzy_match_artist(apple_artist, spotify_artists) ==
    IF ~TruthyText(apple_artist) \/ spotify_artists = <<>>
    THEN [match |-> apple_artist, score |-> ScoreZero]
    ELSE WithValue(BestMatch(apple_artist, spotify_artists), LAMBDA best :
           IF MeetsThreshold(best.score) THEN best
           ELSE [match |-> apple_artist, score |-> best.score])

-----------------------------------------------------------------------------
(* apple_music_cleaner.py: cells, timestamps and field maps *)

\* A CSV cell read as a number: the text of an integer, other text (the empty
\* string included), or None when the row is too short.
IntCell(v) == [k |-> "int", v |-> v]

JunkCell == [k |-> "junk", v |-> 0]

NoneCell == [k |-> "none", v |-> 0]

\* int(cell)
PyInt(cell) ==
    CASE cell.k = "int"  -> Ok(cell.v)
      [] cell.k = "junk" -> Raise("ValueError")
      [] OTHER           -> Raise("TypeError")

\* 'Date Played': eight digits read as year, month, day ("ymd"), text that
\* int() rejects ("junk"), or None.
DateCell(y, m, d) == [k |-> "ymd", y |-> y, m |-> m, d |-> d]

JunkDate == [k |-> "junk", y |-> 0, m |-> 0, d |-> 0]

NoneDate == [k |-> "none", y |-> 0, m |-> 0, d |-> 0]

\* 'Hours': None, or the comma-separated parts of the string, each an IntCell
\* or a JunkCell (the empty string is one junk part).
NoneHours == <<NoneCell>>

IsLeap(y) == (y % 4 = 0 /\ y % 100 # 0) \/ y % 400 = 0

DaysBefore == <<0, 31, 59, 90, 120, 151, 181, 212, 243, 273, 304, 334>>

DaysIn(y, m) ==
    IF m = 2 THEN (IF IsLeap(y) THEN 29 ELSE 28)
    ELSE IF m \in {4, 6, 9, 11} THEN 30 ELSE 31

\* datetime(year, month, day, hour, 0, 0) raises ValueError outside these ranges.
ValidDateTime(y, m, d, h) ==
    /\ y \in 1..9999
    /\ m \in 1..12
    /\ d >= 1 /\ d <= DaysIn(y, m)
    /\ h \in 0..23

\* dt.strftime('%Y-%m-%dT%H:%M:%SZ') of datetime(y, m, d, h, 0, 0)
Stamp(y, m, d, h) ==
    Ts("Z", y,
       ((DaysBefore[m] + (IF m > 2 /\ IsLeap(y) THEN 1 ELSE 0) + d - 1) * 24 + h) * 3600)

EpochStamp == Ts("Z", 1970, 0)

\* The fallback of convert_timestamp: the date alone; the bare except catches
\* everything.
DateOnly(date_played) ==
    IF date_played.k = "ymd"
       /\ ValidDateTime(date_played.y, date_played.m, date_played.d, 0)
    THEN Ok(Stamp(date_played.y, date_played.m, date_played.d, 0))
    ELSE Ok(EpochStamp)

convert_timestamp_LastHour(date_played, hours) ==
    IF hours = NoneHours THEN Raise("TypeError")
    ELSE IF hours[Len(hours)].k # "int" THEN DateOnly(date_played)
    ELSE IF date_played.k = "none" THEN Raise("TypeError")
    ELSE IF date_played.k = "junk" THEN DateOnly(date_played)
    ELSE IF ValidDateTime(date_played.y, date_played.m, date_played.d, hours[Len(hours)].v)
    THEN Ok(Stamp(date_played.y, date_played.m, date_played.d, hours[Len(hours)].v))
    ELSE DateOnly(date_played)

\* convert_timestamp: the first try catches ValueError and IndexError only, so
\* the TypeError of a None argument escapes it.
convert_timestamp(date_played, hours) ==
    IF hours = NoneHours THEN Raise("TypeError")
    ELSE IF hours[1].k # "int" THEN DateOnly(date_played)
    ELSE IF date_played.k = "none" THEN Raise("TypeError")
    ELSE IF date_played.k = "junk" THEN DateOnly(date_played)
    ELSE IF ValidDateTime(date_played.y, date_played.m, date_played.d, hours[1].v)
    THEN Ok(Stamp(date_played.y, date_played.m, date_played.d, hours[1].v))
    ELSE DateOnly(date_played)

\* mapping.get(end_reason, "unknown")
map_end_reason(end_reason) ==
    CASE end_reason = "NATURAL_END_OF_TRACK" -> "trackdone"
      [] end_reason = "MANUALLY_SELECTED_PLAYBACK_OF_A_DIFF_ITEM" -> "fwdbtn"
      [] end_reason = "PLAYBACK_MANUALLY_PAUSED" -> "endplay"
      [] end_reason = "SCRUBBING_BEGIN" -> "fwdbtn"
      [] end_reason = "SCRUBBING_END" -> "endplay"
      [] OTHER -> "unknown"

\* mapping.get(source_type, source_type)
map_platform(source_type) ==
    CASE source_type = "IPHONE" -> "iOS"
      [] source_type = "IPAD" -> "iOS"
      [] source_type = "MACOS" -> "macOS"
      [] source_type = "ITUNES" -> "Windows"
      [] source_type = "APPLE_TV" -> "tvOS"
      [] source_type = "APPLE_WATCH" -> "watchOS"
      [] OTHER -> source_type

\* mapping.get(country, country)
map_country(country) ==
    CASE country = "United States" -> "US"
      [] country = "Canada" -> "CA"
      [] country = "United Kingdom" -> "GB"
      [] country = "Australia" -> "AU"
      [] country = "Germany" -> "DE"
      [] country = "France" -> "FR"
      [] country = "Japan" -> "JP"
      [] country = "Brazil" -> "BR"
      [] country = "Mexico" -> "MX"
      [] country = "Italy" -> "IT"
      [] country = "Spain" -> "ES"
      [] country = "Netherlands" -> "NL"
      [] country = "Sweden" -> "SE"
      [] country = "Norway" -> "NO"
      [] country = "Denmark" -> "DK"
      [] country = "Finland" -> "FI"
      [] OTHER -> country

-----------------------------------------------------------------------------
(* apple_music_cleaner.py: rows *)

MinPlayMs == 30000

TopArtists == 50

\* The distinct truthy artist names in the order of their first record.
load_spotify_artists_FileOrder(file) ==
    IF ~file.exists THEN <<>>
    ELSE LET names == [i \in 1..Len(file.data) |->
                          file.data[i].master_metadata_album_artist_name]
             first == SelectSeq([i \in 1..Len(names) |-> i],
                                LAMBDA i : /\ TruthyText(names[i])
                                           /\ \A j \in 1..(i - 1) : names[j] # names[i])
         IN  [p \in 1..Len(first) |-> names[first[p]]]

\* load_spotify_artists: the distinct truthy artist names of the clean
\* majority-source file, sorted; [] when the file cannot be loaded.
load_spotify_artists(file) ==
    IF ~file.exists THEN <<>>
    ELSE SortedTexts({file.data[i].master_metadata_album_artist_name :
                        i \in {j \in 1..Len(file.data) :
                                 TruthyText(file.data[j].master_metadata_album_artist_name)}})

apple_should_exclude_record_Inclusive(row) ==
    \/ row.Media_type # "AUDIO"
    \/ PyInt(row.Play_Duration_Milliseconds).raised # "none"
    \/ PyInt(row.Play_Duration_Milliseconds).data <= MinPlayMs
    \/ ~TruthyText(parse_track_description(row.Track_Description).song)

\* should_exclude_record of apple_music_cleaner.py
apple_should_exclude_record(row) ==
    \/ row.Media_type # "AUDIO"
    \/ PyInt(row.Play_Duration_Milliseconds).raised # "none"
    \/ PyInt(row.Play_Duration_Milliseconds).data < MinPlayMs
    \/ ~TruthyText(parse_track_description(row.Track_Description).song)

RowArtist(row) == parse_track_description(row.Track_Description).artist

Counted_EveryRow(row) == TruthyText(RowArtist(row))

\* The rows get_top_artists_by_play_count counts: kept rows with an artist.
Counted(row) == ~apple_should_exclude_record(row) /\ TruthyText(RowArtist(row))

\* artist_play_counts[artist]: the accumulated play duration over rows[1..n].
RECURSIVE PlayTotal(_, _, _)
PlayTotal(rows, artist, n) ==
    IF n = 0 THEN 0
    ELSE PlayTotal(rows, artist, n - 1)
         + (IF Counted(rows[n]) /\ RowArtist(rows[n]) = artist
            THEN PyInt(rows[n].Play_Duration_Milliseconds).data ELSE 0)

\* The row that inserts artist into artist_play_counts.
FirstCounted(rows, artist) ==
    CHOOSE i \in 1..Len(rows) :
        /\ Counted(rows[i]) /\ RowArtist(rows[i]) = artist
        /\ \A j \in 1..(i - 1) : ~(Counted(rows[j]) /\ RowArtist(rows[j]) = artist)

\* sorted(artist_play_counts.items(), key=count, reverse=True)[:top_n]: by
\* descending total, ties in insertion order.
get_top_artists_by_play_count(csv_rows, top_n) ==
    WithValue(csv_rows, LAMBDA rows :
      WithValue({RowArtist(rows[i]) : i \in {j \in 1..Len(rows) : Counted(rows[j])}},
        LAMBDA artists :
          WithValue([a \in artists |->
                        [total |-> PlayTotal(rows, a, Len(rows)),
                         first |-> FirstCounted(rows, a)]],
            LAMBDA count :
              LET Ahead(b, a) == \/ count[b].total > count[a].total
                                 \/ count[b].total = count[a].total
                                    /\ count[b].first < count[a].first
                  size == IF Cardinality(artists) < top_n
                          THEN Cardinality(artists) ELSE top_n
              IN  [p \in 1..size |->
                      CHOOSE a \in artists :
                          Cardinality({b \in artists : Ahead(b, a)}) = p - 1])))

ResolveArtist_AllEligible(artist, spotify_artists, top_apple_artists) ==
    IF ~TruthyText(artist)
    THEN [original_artist |-> NoneText, matched_artist |-> NoneText,
          similarity_score |-> ScoreZero, was_matched |-> FALSE]
    ELSE IF \E i \in 1..Len(spotify_artists) : spotify_artists[i] = artist
    THEN [original_artist |-> artist, matched_artist |-> artist,
          similarity_score |-> ScoreOne, was_matched |-> TRUE]
    ELSE LET m == fuzzy_match_artist(artist, spotify_artists)
         IN  [original_artist |-> artist, matched_artist |-> m.match,
              similarity_score |-> m.score, was_matched |-> MeetsThreshold(m.score)]

ResolveArtist_FuzzyFirst(artist, spotify_artists, top_apple_artists) ==
    IF ~TruthyText(artist)
    THEN [original_artist |-> NoneText, matched_artist |-> NoneText,
          similarity_score |-> ScoreZero, was_matched |-> FALSE]
    ELSE IF \E i \in 1..Len(top_apple_artists) : top_apple_artists[i] = artist
    THEN LET m == fuzzy_match_artist(artist, spotify_artists)
         IN  [original_artist |-> artist, matched_artist |-> m.match,
              similarity_score |-> m.score, was_matched |-> MeetsThreshold(m.score)]
    ELSE IF \E i \in 1..Len(spotify_artists) : spotify_artists[i] = artist
    THEN [original_artist |-> artist, matched_artist |-> artist,
          similarity_score |-> ScoreOne, was_matched |-> TRUE]
    ELSE [original_artist |-> artist, matched_artist |-> artist,
          similarity_score |-> ScoreZero, was_matched |-> FALSE]

\* The artist matching of convert_apple_music_record_optimized.
ResolveArtist(artist, spotify_artists, top_apple_artists) ==
    IF ~TruthyText(artist)
    THEN [original_artist |-> NoneText, matched_artist |-> NoneText,
          similarity_score |-> ScoreZero, was_matched |-> FALSE]
    ELSE IF \E i \in 1..Len(spotify_artists) : spotify_artists[i] = artist
    THEN [original_artist |-> artist, matched_artist |-> artist,
          similarity_score |-> ScoreOne, was_matched |-> TRUE]
    ELSE IF \E i \in 1..Len(top_apple_artists) : top_apple_artists[i] = artist
    THEN LET m == fuzzy_match_artist(artist, spotify_artists)
         IN  [original_artist |-> artist, matched_artist |-> m.match,
              similarity_score |-> m.score, was_matched |-> MeetsThreshold(m.score)]
    ELSE [original_artist |-> artist, matched_artist |-> artist,
          similarity_score |-> ScoreZero, was_matched |-> FALSE]

\* convert_apple_music_record_optimized: (converted_record, mapping_info), or
\* the exception of convert_timestamp or of int(Skip Count).
convert_apple_music_record_optimized(row, spotify_artists, top_apple_artists) ==
    WithValue(parse_track_description(row.Track_Description), LAMBDA parsed :
    WithValue(ResolveArtist(parsed.artist, spotify_artists, top_apple_artists),
      LAMBDA mapping_info :
    WithValue(convert_timestamp(row.Date_Played, row.Hours), LAMBDA timestamp :
    WithValue(PyInt(row.Skip_Count), LAMBDA skip_count :
        IF timestamp.raised # "none" THEN timestamp
        ELSE IF skip_count.raised # "none" THEN skip_count
        ELSE Ok([record |->
                   [ts |-> timestamp.data,
                    platform |-> map_platform(row.Source_Type),
                    ms_played |-> PyInt(row.Play_Duration_Milliseconds).data,
                    conn_country |-> map_country(row.Country),
                    ip_addr |-> NoIp,
                    master_metadata_track_name |-> parsed.song,
                    master_metadata_album_artist_name |-> mapping_info.matched_artist,
                    master_metadata_album_album_name |-> null,
                    spotify_track_uri |-> null,
                    episode_name |-> null,
                    episode_show_name |-> null,
                    spotify_episode_uri |-> null,
                    audiobook_title |-> null,
                    audiobook_uri |-> null,
                    audiobook_chapter_uri |-> null,
                    audiobook_chapter_title |-> null,
                    reason_start |-> "unknown",
                    reason_end |-> map_end_reason(row.End_Reason_Type),
                    shuffle |-> null,
                    skipped |-> skip_count.data > 0,
                    offline |-> null,
                    offline_timestamp |-> null,
                    incognito_mode |-> FALSE,
                    provider |-> "Apple Music"],
                 mapping_info |-> mapping_info])))))

RECURSIVE ConcatRecords(_, _)
ConcatRecords(converted, n) ==
    IF n = 0 THEN <<>> ELSE Append(ConcatRecords(converted, n - 1), converted[n].data.record)

MappingsOf(converted) ==
    LET with_artist == SelectSeq(converted,
            LAMBDA c : TruthyText(c.data.mapping_info.original_artist))
    IN  [i \in 1..Len(with_artist) |-> with_artist[i].data.mapping_info]

\* process_apple_music_csv up to the write: the rows that are not excluded
\* are converted in order, and the first exception of a conversion leaves the
\* loop and the function; else the sorted converted records and the mapping
\* summary.
process_apple_music_csv(csv_rows, spotify_file) ==
    WithValue(load_spotify_artists(spotify_file), LAMBDA spotify_artists :
    WithValue(get_top_artists_by_play_count(csv_rows, TopArtists),
      LAMBDA top_apple_artists :
    WithValue(SelectSeq(csv_rows, LAMBDA row : ~apple_should_exclude_record(row)),
      LAMBDA rows :
    WithValue([i \in 1..Len(rows) |->
                  convert_apple_music_record_optimized(
                      rows[i], spotify_artists, top_apple_artists)],
      LAMBDA converted :
        IF \E i \in 1..Len(converted) : converted[i].raised # "none"
        THEN converted[CHOOSE i \in 1..Len(converted) :
                          /\ converted[i].raised # "none"
                          /\ \A j \in 1..(i - 1) : converted[j].raised = "none"]
        ELSE Ok([records |->
                     StableSort("str", ConcatRecords(converted, Len(converted))),
                 mappings |-> MappingsOf(converted)])))))

-----------------------------------------------------------------------------
(* consolidate_streaming_data.py *)

\* load_json_file: [] when the file cannot be loaded.
load_json_file(file) == IF file.exists THEN file.data ELSE <<>>

\* sort(key=parse_timestamp(...)) compares an aware with a naive datetime, and
\* raises TypeError, as soon as the list holds both.
DatetimeSortRaises(records) ==
    \E i, j \in 1..Len(records) :
        ~Comparable(parse_timestamp(records[i].ts), parse_timestamp(records[j].ts))

\* consolidate_streaming_data up to the write: "nothing" when neither file
\* gave a record, else the sorted concatenation.
consolidate_streaming_data_SpotifyOnly(spotify_file, apple_file) ==
    WithValue(load_json_file(spotify_file), LAMBDA all_records :
        IF load_json_file(spotify_file) = <<>> /\ load_json_file(apple_file) = <<>>
        THEN Raise("no data")
        ELSE IF DatetimeSortRaises(all_records) THEN Raise("TypeError")
        ELSE Ok(StableSort("datetime", all_records)))

consolidate_streaming_data(spotify_file, apple_file) ==
    WithValue(load_json_file(spotify_file) \o load_json_file(apple_file),
      LAMBDA all_records :
        IF load_json_file(spotify_file) = <<>> /\ load_json_file(apple_file) = <<>>
        THEN Raise("no data")
        ELSE IF DatetimeSortRaises(all_records) THEN Raise("TypeError")
        ELSE Ok(StableSort("datetime", all_records)))

-----------------------------------------------------------------------------
(* The raw majority-source records of the model *)

Queen == <<"Q", "u", "e", "e", "n">>

TrackY == <<"Y">>

BaseRecord ==
    [ts |-> Ts("Z", 2020, 100),
     platform |-> "android",
     ms_played |-> 200000,
     conn_country |-> "US",
     ip_addr |-> Ip("10.0.0.", "1"),
     master_metadata_track_name |-> TrackY,
     master_metadata_album_artist_name |-> Queen,
     master_metadata_album_album_name |-> "Jazz",
     spotify_track_uri |-> "spotify:track:1",
     episode_name |-> null,
     episode_show_name |-> null,
     spotify_episode_uri |-> null,
     audiobook_title |-> null,
     audiobook_uri |-> null,
     audiobook_chapter_uri |-> null,
     audiobook_chapter_title |-> null,
     reason_start |-> "clickrow",
     reason_end |-> "trackdone",
     shuffle |-> "false",
     skipped |-> FALSE,
     offline |-> "false",
     offline_timestamp |-> null,
     incognito_mode |-> FALSE,
     provider |-> null]

TsValues ==
    {Ts("Z", 2020, 110), Ts("Z", 2015, 100), Ts("Z", 2016, 100),
     Ts("Off", 2021, 100), Ts("Off", 2015, 100), Ts("Naive", 2019, 100),
     TsBad, TsEmpty, TsNull}

DurationValues == {-1, 29999, 30000}

\* The base record with one field, or the (skipped, ms_played) pair, changed.
SpotifyRawRecords ==
    {BaseRecord}
    \cup {[BaseRecord EXCEPT !.ts = t] : t \in TsValues}
    \cup {[BaseRecord EXCEPT !.skipped = sk, !.ms_played = ms] :
              sk \in BOOLEAN, ms \in DurationValues}
    \cup {[BaseRecord EXCEPT !.spotify_track_uri = null],
          [BaseRecord EXCEPT !.master_metadata_track_name = NoneText],
          [BaseRecord EXCEPT !.master_metadata_album_artist_name = NoneText],
          [BaseRecord EXCEPT !.episode_name = "Episode 1"],
          [BaseRecord EXCEPT !.episode_show_name = "Show"],
          [BaseRecord EXCEPT !.spotify_episode_uri = "spotify:episode:1"],
          [BaseRecord EXCEPT !.audiobook_title = "Book"],
          [BaseRecord EXCEPT !.audiobook_uri = "spotify:audiobook:1"],
          [BaseRecord EXCEPT !.audiobook_chapter_uri = "spotify:chapter:1"],
          [BaseRecord EXCEPT !.audiobook_chapter_title = "Chapter 1"]}
    \cup {[BaseRecord EXCEPT !.incognito_mode = TRUE],
          [BaseRecord EXCEPT !.incognito_mode = TRUE, !.ts = Ts("Z", 2015, 100)]}
    \cup {[BaseRecord EXCEPT !.conn_country = "ZZ"],
          [BaseRecord EXCEPT !.ip_addr = Ip("173.249.43.", "234")],
          [BaseRecord EXCEPT !.ip_addr = Ip("173.249.43.", "7")],
          [BaseRecord EXCEPT !.ip_addr = NoIp],
          [BaseRecord EXCEPT !.master_metadata_album_artist_name = Wakeem],
          [BaseRecord EXCEPT !.master_metadata_album_album_name = "War for Honor"],
          [BaseRecord EXCEPT !.master_metadata_album_album_name = "War of Honor"],
          [BaseRecord EXCEPT !.master_metadata_album_album_name = null]}

MaxFileLen == 2

SeqsUpTo(S, n) == UNION {[1..k -> S] : k \in 0..n}

NoProbe == [fn |-> "none"]

-----------------------------------------------------------------------------
(* The stages *)

\* spotify_data_cleaner.py: process_spotify_data, then json.dump.  An
\* exception that escapes ends the script before anything is written.
ProcessSpotify ==
    /\ pc = "spotify"
    /\ \E out \in {process_spotify_data(spotify_files)} :
           /\ raised' = [raised EXCEPT !.spotify = out.raised]
           /\ spotify_clean' = IF out.raised = "none" THEN File(out.data)
                               ELSE spotify_clean
    /\ pc' = "apple"
    /\ UNCHANGED <<spotify_files, apple_rows, apple_clean, consolidated,
                   mapping_summary, probe>>
    /\ UNCHANGED <<env, insights, returned>>

\* apple_music_cleaner.py: main refuses to run without the clean
\* majority-source file; process_apple_music_csv catches the exception of a
\* row, reports it and returns before anything is written.
ProcessApple ==
    /\ pc = "apple"
    /\ IF ~spotify_clean.exists
       THEN /\ raised' = [raised EXCEPT !.apple = "no spotify file"]
            /\ UNCHANGED <<apple_clean, mapping_summary>>
       ELSE \E out \in {process_apple_music_csv(apple_rows, spotify_clean)} :
                /\ raised' = [raised EXCEPT !.apple = out.raised]
                /\ apple_clean' = IF out.raised = "none" THEN File(out.data.records)
                                  ELSE apple_clean
                /\ mapping_summary' = IF out.raised = "none" THEN out.data.mappings
                                      ELSE mapping_summary
    /\ pc' = "consolidate"
    /\ UNCHANGED <<spotify_files, apple_rows, spotify_clean, consolidated, probe>>
    /\ UNCHANGED <<env, insights, returned>>

\* consolidate_streaming_data.py: main, then json.dump of the sorted records.
Consolidate ==
    /\ pc = "consolidate"
    /\ \E out \in {consolidate_streaming_data(spotify_clean, apple_clean)} :
           /\ raised' = [raised EXCEPT !.consolidate = out.raised]
           /\ consolidated' = IF out.raised = "none" THEN File(out.data)
                              ELSE consolidated
    /\ pc' = "insights"
    /\ UNCHANGED <<spotify_files, apple_rows, spotify_clean, apple_clean,
                   mapping_summary, probe>>
    /\ UNCHANGED <<env, insights, returned>>

\* skip_apple, whether find_apple_music_file finds a CSV, datetime.now().year
\* and the time of day as a count of clock ticks.
Env(skip_apple, apple_file, year, clock) ==
    [skip_apple |-> skip_apple, apple_file |-> apple_file, year |-> year, clock |-> clock]

NoInsights == [lifetime |-> NoFile, annual |-> NoFile, artist |-> NoFile]

\* No script has run; process_all has not returned.
NotReturned ==
    [spotify |-> "none", apple |-> "none", consolidate |-> "none",
     lifetime |-> "none", annual |-> "none", artist |-> "none",
     process_all |-> "running"]

NoneRaised == [spotify |-> "none", apple |-> "none", consolidate |-> "none"]

\* The majority-source normalizer on one file of up to MaxFileLen records.
InitSpotify ==
    /\ pc = "spotify"
    /\ \E file \in SeqsUpTo(SpotifyRawRecords, MaxFileLen) : spotify_files = <<file>>
    /\ apple_rows = <<>>
    /\ spotify_clean = NoFile
    /\ apple_clean = NoFile
    /\ consolidated = NoFile
    /\ mapping_summary = <<>>
    /\ raised = NoneRaised
    /\ env = Env(FALSE, TRUE, 2022, 0)
    /\ insights = NoInsights
    /\ returned = NotReturned
    /\ probe = NoProbe

NextSpotify == ProcessSpotify

SpecSpotify == InitSpotify /\ [][NextSpotify]_vars

-----------------------------------------------------------------------------
(* The pipeline: the three scripts run one after the other *)

BaseRow ==
    [Track_Description |-> Queen \o Separator \o TrackY,
     Media_type |-> "AUDIO",
     Play_Duration_Milliseconds |-> IntCell(200000),
     Date_Played |-> DateCell(2021, 3, 5),
     Hours |-> <<IntCell(16)>>,
     Source_Type |-> "IPHONE",
     Country |-> "United States",
     End_Reason_Type |-> "NATURAL_END_OF_TRACK",
     Skip_Count |-> IntCell(0)]

Hit == <<"H", "i", "t">>

PipelineRecords ==
    {BaseRecord,
     [BaseRecord EXCEPT !.ts = Ts("Z", 2022, 100)],
     [BaseRecord EXCEPT !.ts = Ts("Off", 2021, 100)],
     [BaseRecord EXCEPT !.ts = TsBad],
     [BaseRecord EXCEPT !.ts = TsNull],
     [BaseRecord EXCEPT !.conn_country = "ZZ"]}

PipelineRows ==
    {BaseRow,
     [BaseRow EXCEPT !.Country = "ZZ"],
     [BaseRow EXCEPT !.Track_Description = Wakeem \o Separator \o Hit],
     [BaseRow EXCEPT !.Skip_Count = JunkCell],
     [BaseRow EXCEPT !.Date_Played = JunkDate]}

MaxRows == 2

Init ==
    /\ pc = "spotify"
    /\ \E file \in SeqsUpTo(PipelineRecords, MaxFileLen) : spotify_files = <<file>>
    /\ apple_rows \in SeqsUpTo(PipelineRows, MaxRows)
    /\ spotify_clean = NoFile
    /\ apple_clean = NoFile
    /\ consolidated = NoFile
    /\ mapping_summary = <<>>
    /\ raised = NoneRaised
    /\ env = Env(FALSE, TRUE, 2022, 0)
    /\ insights = NoInsights
    /\ returned = NotReturned
    /\ probe = NoProbe

Next == ProcessSpotify \/ ProcessApple \/ Consolidate

Spec == Init /\ [][Next]_vars

-----------------------------------------------------------------------------
(* generate_lifetime_stats.py, generate_annual_recaps.py and
   generate_artist_summary.py: the rollups, reduced to their counts *)

MinYear == 2008

\* The record has a truthy ts that parses to something other than datetime.min.
Dated(record) ==
    TruthyTs(record.ts) /\ parse_timestamp(record.ts) # DateTimeMin

YearOf(record) == parse_timestamp(record.ts).y

InYearRange_Exclusive(year, now_year) == year > MinYear /\ year <= now_year

\* not (year < 2008 or year > datetime.now().year)
InYearRange(year, now_year) == year >= MinYear /\ year <= now_year

\* dt < first_play on an aware and a naive datetime raises TypeError.
MixedAwareness(records, I) ==
    \E i, j \in I : ~Comparable(parse_timestamp(records[i].ts),
                                parse_timestamp(records[j].ts))

DistinctTruthy(records, I, field) ==
    Cardinality({records[i][field] : i \in {j \in I : TruthyText(records[j][field])}})

TopListSize == 50

ArtistTopListSize == 20

\* if artist: / if track: / if album: on a field of a record.
TruthyField(record, field) ==
    IF field = "master_metadata_album_album_name" THEN record[field] # null
    ELSE TruthyText(record[field])

TopList_TiesReversed(records, I, field, n) ==
    WithValue({i \in I : TruthyField(records[i], field)}, LAMBDA with_key :
      WithValue({records[i][field] : i \in with_key}, LAMBDA keys :
        WithValue([k \in keys |->
                      [count |-> Cardinality({i \in with_key : records[i][field] = k}),
                       first |-> CHOOSE i \in with_key :
                                    /\ records[i][field] = k
                                    /\ \A j \in with_key : records[j][field] = k => i <= j]],
          LAMBDA tally :
            WithValue([k \in keys |->
                          1 + Cardinality({b \in keys :
                                 \/ tally[b].count > tally[k].count
                                 \/ tally[b].count = tally[k].count
                                    /\ tally[b].first > tally[k].first})],
              LAMBDA place :
                [p \in 1..(IF Cardinality(keys) < n THEN Cardinality(keys) ELSE n) |->
                    WithValue(CHOOSE k \in keys : place[k] = p,
                              LAMBDA k : <<k, tally[k].count>>)]))))

\* sorted(counts.items(), key=lambda x: x[1], reverse=True)[:n] of the counts
\* of a field over the records at I: descending counts, and equal counts in
\* the order in which the dict met the keys.
TopList(records, I, field, n) ==
    WithValue({i \in I : TruthyField(records[i], field)}, LAMBDA with_key :
      WithValue({records[i][field] : i \in with_key}, LAMBDA keys :
        WithValue([k \in keys |->
                      [count |-> Cardinality({i \in with_key : records[i][field] = k}),
                       first |-> CHOOSE i \in with_key :
                                    /\ records[i][field] = k
                                    /\ \A j \in with_key : records[j][field] = k => i <= j]],
          LAMBDA tally :
            WithValue([k \in keys |->
                          1 + Cardinality({b \in keys :
                                 \/ tally[b].count > tally[k].count
                                 \/ tally[b].count = tally[k].count
                                    /\ tally[b].first < tally[k].first})],
              LAMBDA place :
                [p \in 1..(IF Cardinality(keys) < n THEN Cardinality(keys) ELSE n) |->
                    WithValue(CHOOSE k \in keys : place[k] = p,
                              LAMBDA k : <<k, tally[k].count>>)]))))

UnknownText == <<"U", "n", "k", "n", "o", "w", "n">>

\* The records the lifetime counters of a field look at: value != 'Unknown'.
NotUnknown(records, field) ==
    {i \in 1..Len(records) :
        records[i][field] # (IF field = "master_metadata_album_album_name"
                             THEN "Unknown" ELSE UnknownText)}

\* stats['top_lists'] of the lifetime rollup.
LifetimeTopLists(records) ==
    [top_artists |->
        TopList(records, NotUnknown(records, "master_metadata_album_artist_name"),
                "master_metadata_album_artist_name", TopListSize),
     top_tracks |->
        TopList(records, NotUnknown(records, "master_metadata_track_name"),
                "master_metadata_track_name", TopListSize),
     top_albums |->
        TopList(records, NotUnknown(records, "master_metadata_album_album_name"),
                "master_metadata_album_album_name", TopListSize)]

\* count / total * 100 as the exact fraction num / den; Python's float
\* division and product are monotone, so the order of two such values with
\* one total is the order of the fractions.
Percent(count, total) == [num |-> count * 100, den |-> total]

ZeroPercent == [num |-> 0, den |-> 1]

PercentLeq(a, b) == a.num * b.den <= b.num * a.den

RECURSIVE SumOfCounts(_)
\* sum(count for _, count in pairs)
SumOfCounts(pairs) ==
    IF pairs = <<>> THEN 0 ELSE pairs[1][2] + SumOfCounts(Tail(pairs))

\* calculate_diversity_metrics: the share of all plays that go to the 1, 5 and
\* 10 most played artists; the shares of 5 and of 10 are 0 when there are
\* fewer artists than that.
calculate_diversity_metrics(records) ==
    WithValue(TopList(records, 1..Len(records), "master_metadata_album_artist_name",
                      Len(records)),
      LAMBDA sorted_artists :
        [unique_artists |-> Len(sorted_artists),
         top_1_artist_concentration |->
            IF sorted_artists # <<>>
            THEN Percent(sorted_artists[1][2], Len(records)) ELSE ZeroPercent,
         top_5_artist_concentration |->
            IF Len(sorted_artists) >= 5
            THEN Percent(SumOfCounts(SubSeq(sorted_artists, 1, 5)), Len(records))
            ELSE ZeroPercent,
         top_10_artist_concentration |->
            IF Len(sorted_artists) >= 10
            THEN Percent(SumOfCounts(SubSeq(sorted_artists, 1, 10)), Len(records))
            ELSE ZeroPercent])

\* datetime.isoformat(): no suffix for a naive datetime, the offset for an
\* aware one.
isoformat(dt) == Ts(IF dt.aware THEN "Off" ELSE "Naive", dt.y, dt.sec)

\* earliest_date and latest_date over the dated records at I (I not empty).
EarliestDate(records, I) ==
    CHOOSE dt \in {parse_timestamp(records[i].ts) : i \in I} :
        \A i \in I : ~DtLess(parse_timestamp(records[i].ts), dt)

LatestDate(records, I) ==
    CHOOSE dt \in {parse_timestamp(records[i].ts) : i \in I} :
        \A i \in I : ~DtLess(dt, parse_timestamp(records[i].ts))

\* stats['milestones']: the timestamps are the earliest and the latest dated
\* instant, the artist and track those of records[0] and of records[-1].
Milestones(records, dated) ==
    [first_track_played |->
        [timestamp |-> isoformat(EarliestDate(records, dated)),
         artist |-> records[1].master_metadata_album_artist_name,
         track |-> records[1].master_metadata_track_name],
     most_recent_track |->
        [timestamp |-> isoformat(LatestDate(records, dated)),
         artist |-> records[Len(records)].master_metadata_album_artist_name,
         track |-> records[Len(records)].master_metadata_track_name]]

\* generate_lifetime_stats: every record counts; the dated ones feed the date
\* range and the yearly breakdown.  The division by the number of days with
\* listening raises when no record is dated.
generate_lifetime_stats(file, now) ==
    IF ~file.exists THEN Ok(<<>>)
    ELSE WithValue(file.data, LAMBDA records :
      WithValue({i \in 1..Len(records) : Dated(records[i])}, LAMBDA dated :
        IF records = <<>>
        THEN Ok([metadata |-> [generated_at |-> now, total_records |-> 0],
                 content_stats |-> <<>>,
                 temporal_patterns |-> <<>>,
                 diversity_metrics |-> <<>>,
                 milestones |-> <<>>,
                 top_lists |-> <<>>])
        ELSE IF MixedAwareness(records, dated) THEN Raise("TypeError")
        ELSE IF dated = {} THEN Raise("ZeroDivisionError")
        ELSE Ok([metadata |-> [generated_at |-> now, total_records |-> Len(records)],
                 content_stats |->
                    [unique_artists |->
                        DistinctTruthy(records, 1..Len(records),
                                       "master_metadata_album_artist_name"),
                     unique_tracks |->
                        DistinctTruthy(records, 1..Len(records),
                                       "master_metadata_track_name"),
                     total_plays |-> Len(records)],
                 temporal_patterns |->
                    [yearly_breakdown |->
                        [y \in {YearOf(records[i]) : i \in dated} |->
                            [plays |-> Cardinality({i \in dated : YearOf(records[i]) = y})]]],
                 diversity_metrics |-> calculate_diversity_metrics(records),
                 milestones |-> Milestones(records, dated),
                 top_lists |-> LifetimeTopLists(records)])))

\* The records the yearly loops of the annual and the artist rollup count.
InRange(records, now_year) ==
    {i \in 1..Len(records) : Dated(records[i]) /\ InYearRange(YearOf(records[i]), now_year)}

\* generate_annual_recaps: {} when the file does not load or no record counts.
generate_annual_recaps(file, now_year) ==
    IF ~file.exists THEN Ok(<<>>)
    ELSE WithValue(file.data, LAMBDA records :
      WithValue(InRange(records, now_year), LAMBDA counted :
        IF \E y \in {YearOf(records[i]) : i \in counted} :
              MixedAwareness(records, {i \in counted : YearOf(records[i]) = y})
        THEN Raise("TypeError")
        ELSE Ok([y \in {YearOf(records[i]) : i \in counted} |->
                   LET of_year == {i \in counted : YearOf(records[i]) = y}
                   IN  [year |-> y,
                        top_artists |->
                           TopList(records, of_year, "master_metadata_album_artist_name",
                                   TopListSize),
                        top_tracks |->
                           TopList(records, of_year, "master_metadata_track_name",
                                   TopListSize),
                        top_albums |->
                           TopList(records, of_year, "master_metadata_album_album_name",
                                   TopListSize),
                        year_stats |->
                           [total_plays |-> Cardinality(of_year),
                            unique_artists |->
                               DistinctTruthy(records, of_year,
                                              "master_metadata_album_artist_name"),
                            unique_tracks |->
                               DistinctTruthy(records, of_year,
                                              "master_metadata_track_name")]]])))

\* generate_artist_summary: the in-range records that have an artist.
generate_artist_summary(file, now_year) ==
    IF ~file.exists THEN Ok(<<>>)
    ELSE WithValue(file.data, LAMBDA records :
      WithValue({i \in InRange(records, now_year) :
                    TruthyText(records[i].master_metadata_album_artist_name)},
        LAMBDA counted :
          LET artists == {records[i].master_metadata_album_artist_name : i \in counted}
              By(a) == {i \in counted : records[i].master_metadata_album_artist_name = a}
          IN  IF \E a \in artists : MixedAwareness(records, By(a))
              THEN Raise("TypeError")
              ELSE Ok([a \in artists |->
                         [total_streams |-> Cardinality(By(a)),
                          years_active |-> Cardinality({YearOf(records[i]) : i \in By(a)}),
                          top_tracks |->
                             TopList(records, By(a), "master_metadata_track_name",
                                     ArtistTopListSize),
                          top_albums |->
                             TopList(records, By(a), "master_metadata_album_album_name",
                                     ArtistTopListSize),
                          yearly_breakdown |->
                             [y \in {YearOf(records[i]) : i \in By(a)} |->
                                 [streams |->
                                     Cardinality({i \in By(a) : YearOf(records[i]) = y})]]]])))

\* main of a generator: an exception ends the script with return code 1; an
\* empty result is reported and nothing is written, with return code 0.
RunGenerator(name, out) ==
    /\ returned' = [returned EXCEPT ![name] = IF out.raised = "none" THEN "0" ELSE "1"]
    /\ insights' = [insights EXCEPT
                       ![name] = IF out.raised = "none" /\ out.data # <<>>
                                 THEN File(out.data) ELSE @]

-----------------------------------------------------------------------------
(* Claims about the majority-source normalizer, under SpecSpotify *)

Elems(s) == {s[i] : i \in 1..Len(s)}

SpotifyInput == UNION {Elems(spotify_files[f]) : f \in 1..Len(spotify_files)}

SpotifyRan == pc # "spotify" /\ spotify_clean.exists

InSpotifyOutput(record) == Tagged(record, "Spotify") \in Elems(spotify_clean.data)

\* C3: no event with a negative ms_played exists in the output of either
\* source normalizer, whatever the raw records are.
C3_NoNegativeDuration ==
    /\ spotify_clean.exists =>
          \A r \in Elems(spotify_clean.data) : r.ms_played >= 0
    /\ apple_clean.exists =>
          \A r \in Elems(apple_clean.data) : r.ms_played >= 0

\* C4: every record the majority-source normalizer outputs is a music event:
\* track identifier, track name and artist name are non-null and it carries no
\* podcast-episode or audiobook metadata, the audiobook-chapter fields included.
C4_OutputIsMusicOnly ==
    spotify_clean.exists =>
        \A r \in Elems(spotify_clean.data) :
            /\ r.spotify_track_uri # null
            /\ r.master_metadata_track_name # NoneText
            /\ r.master_metadata_album_artist_name # NoneText
            /\ r.episode_name = null /\ r.spotify_episode_uri = null
            /\ r.audiobook_title = null /\ r.audiobook_uri = null
            /\ r.audiobook_chapter_uri = null /\ r.audiobook_chapter_title = null

\* A record that no rule other than the skip rule removes.
OnlySkipRuleApplies(r) ==
    /\ is_song(r) /\ ~r.incognito_mode /\ ~is_suspicious_stream(r)
    /\ ~(TruthyTs(r.ts) /\ is_before_2016(r.ts))

\* C5: a music record that no other rule removes is excluded exactly when it is
\* skipped and ms_played < 30000; a non-skipped record is never excluded on
\* account of its duration.
C5_SkipBoundary ==
    SpotifyRan =>
        \A r \in SpotifyInput :
            OnlySkipRuleApplies(r) =>
                (InSpotifyOutput(r) <=> ~(r.skipped /\ r.ms_played < 30000))

\* C5 witness: a skipped record of 29999 ms was dropped and a skipped record of
\* 30000 ms was kept by the same run.
C5_Witness ==
    /\ SpotifyRan
    /\ \E r \in SpotifyInput :
          r.skipped /\ r.ms_played = 29999 /\ OnlySkipRuleApplies(r)
          /\ ~InSpotifyOutput(r)
    /\ \E r \in SpotifyInput :
          r.skipped /\ r.ms_played = 30000 /\ InSpotifyOutput(r)

\* C6 as stated: no output record has a resolved timestamp (the minimum
\* sentinel for an unparseable ts) whose year is before 2016.
C6_ResolvedYearNotBeforeCutoff ==
    spotify_clean.exists =>
        \A r \in Elems(spotify_clean.data) : parse_timestamp(r.ts).y >= 2016

\* A record that no rule other than the cutoff rule removes.
OnlyCutoffRuleApplies(r) ==
    /\ is_song(r) /\ ~r.incognito_mode /\ ~is_suspicious_stream(r)
    /\ ~(r.skipped /\ r.ms_played < 30000)

\* C6 amended: a record that no other rule removes is excluded exactly when its
\* ts is a well-formed ISO timestamp of a year before 2016; a record whose ts is
\* empty, null or unparseable is kept.
C6_CutoffOnParsedYear ==
    SpotifyRan =>
        \A r \in SpotifyInput :
            OnlyCutoffRuleApplies(r) =>
                (InSpotifyOutput(r) <=>
                    ~(r.ts.k \in {"Z", "Off", "Naive"} /\ r.ts.y < 2016))

\* C6 witness: a record of 2015 was dropped and a record with an unparseable ts
\* was kept by the same run.
C6_Witness ==
    /\ SpotifyRan
    /\ \E r \in SpotifyInput :
          r.ts = Ts("Z", 2015, 100) /\ OnlyCutoffRuleApplies(r) /\ ~InSpotifyOutput(r)
    /\ \E r \in SpotifyInput : r.ts = TsBad /\ InSpotifyOutput(r)

-----------------------------------------------------------------------------
(* Claims about the consolidated corpus, under Spec *)

Occurrences(s, x) == Cardinality({i \in 1..Len(s) : s[i] = x})

\* The two lists the consolidator loads.
ConsolidatorInput == load_json_file(spotify_clean) \o load_json_file(apple_clean)

\* C1: the written consolidated sequence is in chronological order: the parsed
\* timestamp of each record is at most that of the next (a record without a
\* parseable ts counts as the minimum instant).
C1_ChronologicalOrder ==
    consolidated.exists =>
        \A i \in 1..(Len(consolidated.data) - 1) :
            /\ Comparable(parse_timestamp(consolidated.data[i].ts),
                          parse_timestamp(consolidated.data[i + 1].ts))
            /\ DtLeq(parse_timestamp(consolidated.data[i].ts),
                     parse_timestamp(consolidated.data[i + 1].ts))

\* C1 witness: a consolidated file of both providers whose records did not
\* arrive in chronological order, one of them with an unparseable ts.
C1_Witness ==
    /\ consolidated.exists
    /\ consolidated.data # ConsolidatorInput
    /\ \E i, j \in 1..Len(consolidated.data) :
          /\ consolidated.data[i].provider = "Spotify"
          /\ consolidated.data[j].provider = "Apple Music"
    /\ \E i \in 1..Len(consolidated.data) : consolidated.data[i].ts = TsBad

\* C2: the consolidator neither drops nor duplicates events: the sequence it
\* writes has exactly the records of the Spotify list followed by the Apple
\* Music list, each as often as there, and it writes one whenever a list is
\* non-empty and the sort does not raise.
C2_NoDropNoDuplicate ==
    /\ consolidated.exists =>
          /\ Len(consolidated.data) = Len(ConsolidatorInput)
          /\ \A i \in 1..Len(ConsolidatorInput) :
                Occurrences(consolidated.data, ConsolidatorInput[i])
                    = Occurrences(ConsolidatorInput, ConsolidatorInput[i])
    /\ (pc = "insights" /\ ConsolidatorInput # <<>> /\ raised.consolidate # "TypeError")
          => consolidated.exists

\* C2 witness: both lists non-empty, one record occurring twice, all written.
C2_Witness ==
    /\ consolidated.exists
    /\ load_json_file(spotify_clean) # <<>>
    /\ load_json_file(apple_clean) # <<>>
    /\ \E i \in 1..Len(consolidated.data) :
          Occurrences(consolidated.data, consolidated.data[i]) = 2

\* A row whose cells all convert: a date, an hour list and a skip count are present.
WellFormedRow(row) ==
    /\ row.Skip_Count.k = "int"
    /\ row.Hours # NoneHours
    /\ row.Date_Played.k # "none"

AppleRan == pc \in {"consolidate", "insights"} /\ spotify_clean.exists

\* C8: one malformed field in one minority-source row is recovered locally: the
\* run is not aborted, and every row that passes the exclusion rule and
\* converts is in the written output.
C8_BadRowRecoveredLocally ==
    AppleRan =>
        /\ apple_clean.exists
        /\ Len(apple_clean.data) >=
              Cardinality({i \in 1..Len(apple_rows) :
                              /\ ~apple_should_exclude_record(apple_rows[i])
                              /\ WellFormedRow(apple_rows[i])})

\* C9: no consolidated event, of either provider, has country code ZZ, a
\* deny-listed IP address or prefix, or a deny-listed artist or album name.
C9_ConsolidatedPassedHeuristics ==
    consolidated.exists =>
        \A i \in 1..Len(consolidated.data) :
            LET r == consolidated.data[i]
            IN  /\ r.conn_country # "ZZ"
                /\ r.ip_addr \notin {Ip("173.249.43.", "234"), Ip("173.249.43.", "7")}
                /\ r.master_metadata_album_artist_name # Wakeem
                /\ r.master_metadata_album_album_name
                       \notin {"War for Honor", "War of Honor"}

-----------------------------------------------------------------------------
(* The two timestamp functions, each applied to drawn arguments *)

DateValues ==
    {DateCell(2021, 3, 5), DateCell(2024, 2, 29), DateCell(2021, 2, 29),
     DateCell(2021, 13, 1), DateCell(1970, 1, 1), JunkDate, NoneDate}

HoursValues ==
    {<<IntCell(16)>>, <<IntCell(0)>>, <<IntCell(24)>>, <<IntCell(-1)>>,
     <<IntCell(16), IntCell(17)>>, <<JunkCell>>, NoneHours}

Call(fn, args) == [fn |-> fn, args |-> args, done |-> FALSE, out |-> <<>>]

\* timestamp = convert_timestamp(date_played, hours)
CallConvertTimestamp ==
    /\ pc = "call"
    /\ probe.fn = "convert_timestamp"
    /\ ~probe.done
    /\ probe' = [probe EXCEPT !.done = TRUE,
                              !.out = convert_timestamp(probe.args[1], probe.args[2])]
    /\ UNCHANGED <<pc, spotify_files, apple_rows, spotify_clean, apple_clean,
                   consolidated, mapping_summary, raised>>
    /\ UNCHANGED <<env, insights, returned>>

\* The sort key parse_timestamp(x.get('ts', '')) of two records.
CallParseTimestamp ==
    /\ pc = "call"
    /\ probe.fn = "parse_timestamp"
    /\ ~probe.done
    /\ probe' = [probe EXCEPT !.done = TRUE,
                              !.out = Ok(<<parse_timestamp(probe.args[1]),
                                           parse_timestamp(probe.args[2])>>)]
    /\ UNCHANGED <<pc, spotify_files, apple_rows, spotify_clean, apple_clean,
                   consolidated, mapping_summary, raised>>
    /\ UNCHANGED <<env, insights, returned>>

InitTimestamps ==
    /\ pc = "call"
    /\ spotify_files = <<>>
    /\ apple_rows = <<>>
    /\ spotify_clean = NoFile
    /\ apple_clean = NoFile
    /\ consolidated = NoFile
    /\ mapping_summary = <<>>
    /\ raised = NoneRaised
    /\ env = Env(FALSE, TRUE, 2022, 0)
    /\ insights = NoInsights
    /\ returned = NotReturned
    /\ \/ \E date_played \in DateValues, hours \in HoursValues :
             probe = Call("convert_timestamp", <<date_played, hours>>)
       \/ \E a, b \in TsValues : probe = Call("parse_timestamp", <<a, b>>)

NextTimestamps == CallConvertTimestamp \/ CallParseTimestamp

SpecTimestamps == InitTimestamps /\ [][NextTimestamps]_vars

\* C7: timestamp normalization is total: neither function raises, an input
\* that does not parse gives the minimum sentinel, and any two returned
\* instants can be compared.
C7_TimestampNormalizationTotal ==
    /\ (probe.fn = "convert_timestamp" /\ probe.done) => probe.out.raised = "none"
    /\ (probe.fn = "parse_timestamp" /\ probe.done) =>
          /\ \A i \in 1..2 : ~WellFormed(probe.args[i]) => probe.out.data[i] = DateTimeMin
          /\ Comparable(probe.out.data[1], probe.out.data[2])

-----------------------------------------------------------------------------
(* The anomaly detector on one file holding a large group *)

\* The group sizes run from GroupThreshold - 1 to GroupThreshold + MaxOver.
MaxOver == 2

MaxBystanders == 2

\* The i-th play of a run of n plays of one track: the first `rapid` gaps are
\* `gap` seconds long, the others exactly RapidGapSeconds.
Play(track, i, rapid, gap) ==
    [BaseRecord EXCEPT
        !.master_metadata_track_name = track,
        !.ts = Ts("Z", 2020, 1000 + (IF i - 1 <= rapid THEN (i - 1) * gap
                                     ELSE rapid * gap + (i - 1 - rapid) * RapidGapSeconds))]

Run(track, n, rapid, gap, order) ==
    [i \in 1..n |-> Play(track, IF order = "asc" THEN i ELSE n + 1 - i, rapid, gap)]

RapidCounts(n) == ({0, 60, n - 1} \cup ((n \div 2) - 1)..((n \div 2) + 1)) \cap 0..(n - 1)

InitAnomaly ==
    /\ pc = "spotify"
    /\ \E n \in (GroupThreshold - 1)..(GroupThreshold + MaxOver),
          gap \in {0, RapidGapSeconds - 1},
          order \in {"asc", "desc"},
          m \in 0..MaxBystanders :
          \E rapid \in RapidCounts(n) :
             spotify_files = <<Run(Hit, m, m, 1, "asc") \o Run(TrackY, n, rapid, gap, order)>>
    /\ apple_rows = <<>>
    /\ spotify_clean = NoFile
    /\ apple_clean = NoFile
    /\ consolidated = NoFile
    /\ mapping_summary = <<>>
    /\ raised = NoneRaised
    /\ env = Env(FALSE, TRUE, 2022, 0)
    /\ insights = NoInsights
    /\ returned = NotReturned
    /\ probe = NoProbe

NextAnomaly == ProcessSpotify

SpecAnomaly == InitAnomaly /\ [][NextAnomaly]_vars

\* The places of a list that hold a given (artist, track) pair.
PlaysOf(s, artist, track) ==
    {i \in 1..Len(s) : /\ s[i].master_metadata_album_artist_name = artist
                       /\ s[i].master_metadata_track_name = track}

\* The adjacent pairs of the time-sorted group less than RapidGapSeconds
\* apart, counted by their earlier play: a play has such a successor when a
\* later play of the group follows within the gap, or an equal instant stands
\* after it.
RapidPairs(s, I) ==
    Cardinality({i \in I : \E j \in I \ {i} :
                    \/ /\ s[j].ts.y = s[i].ts.y
                       /\ s[j].ts.sec - s[i].ts.sec \in 1..(RapidGapSeconds - 1)
                    \/ s[j].ts = s[i].ts /\ j > i})

\* C10: a group of records sharing one (artist, track) pair is removed as a
\* whole when it has more than 100 records and more than half as many rapid
\* adjacent pairs as records; otherwise every record of it is retained.
C10_GroupVerdict ==
    (pc # "spotify" /\ Len(spotify_files) = 1) =>
        /\ spotify_clean.exists
        /\ \A track \in {TrackY, Hit} :
              \E I \in {PlaysOf(spotify_files[1], Queen, track)} :
                \E kept \in {Cardinality(PlaysOf(spotify_clean.data, Queen, track))} :
                  IF Cardinality(I) > 100
                     /\ 2 * RapidPairs(spotify_files[1], I) > Cardinality(I)
                  THEN kept = 0
                  ELSE kept = Cardinality(I)

\* C10 witness: a group of 101 plays with 51 rapid pairs is gone from the
\* output, the small group of the same file is still there.
C10_Witness ==
    /\ pc # "spotify" /\ spotify_clean.exists /\ Len(spotify_files) = 1
    /\ Cardinality(PlaysOf(spotify_files[1], Queen, TrackY)) = 101
    /\ RapidPairs(spotify_files[1], PlaysOf(spotify_files[1], Queen, TrackY)) = 51
    /\ PlaysOf(spotify_clean.data, Queen, TrackY) = {}
    /\ Cardinality(PlaysOf(spotify_clean.data, Queen, Hit)) = MaxBystanders

-----------------------------------------------------------------------------
(* The anomaly detector on a group that grows by rapid-succession plays *)

MaxAdded == 2

\* The group is gone from what detect_streaming_anomalies returns.
Discarded(records) ==
    \E out \in {detect_streaming_anomalies(records)} :
        out.raised = "none" /\ PlaysOf(out.data, Queen, TrackY) = {}

\* Where the added plays land: next to the first play (written with an
\* offset instead of Z), the first play of the slow part, and the last play.
Anchors(rapid, n) == {1, rapid + 2, n}

InitGrow ==
    /\ pc = "detect"
    /\ \E n \in (GroupThreshold + 1)..(GroupThreshold + 2),
          gap \in {RapidGapSeconds - 1} :
          \E rapid \in {(n \div 2) - 1, (n \div 2) + 1} :
            \E records \in {Run(TrackY, n, rapid, gap, "asc")} :
               /\ spotify_files = <<records>>
               /\ probe = [fn |-> "detect_streaming_anomalies",
                           n |-> n, rapid |-> rapid, added |-> 0,
                           first |-> Discarded(records),
                           now |-> Discarded(records)]
    /\ apple_rows = <<>>
    /\ spotify_clean = NoFile
    /\ apple_clean = NoFile
    /\ consolidated = NoFile
    /\ mapping_summary = <<>>
    /\ raised = NoneRaised
    /\ env = Env(FALSE, TRUE, 2022, 0)
    /\ insights = NoInsights
    /\ returned = NotReturned

\* One more record of the same (artist, track), less than RapidGapSeconds
\* before or after a record the group already has, and the detector again.
AddRapidPlay ==
    /\ pc = "detect"
    /\ probe.added < MaxAdded
    /\ \E a \in Anchors(probe.rapid, probe.n),
          offset \in {1 - RapidGapSeconds, 0, RapidGapSeconds - 1} :
          \E records \in {Append(spotify_files[1],
                             [BaseRecord EXCEPT
                                 !.ts = Ts(IF a = 1 THEN "Off" ELSE "Z", 2020,
                                           spotify_files[1][a].ts.sec + offset)])} :
             /\ spotify_files' = <<records>>
             /\ probe' = [probe EXCEPT !.added = @ + 1, !.now = Discarded(records)]
    /\ UNCHANGED <<pc, apple_rows, spotify_clean, apple_clean, consolidated,
                   mapping_summary, raised>>
    /\ UNCHANGED <<env, insights, returned>>

NextGrow == AddRapidPlay

SpecGrow == InitGrow /\ [][NextGrow]_vars

-----------------------------------------------------------------------------
(* The row filter and the field maps of apple_music_cleaner.py on drawn cells *)

MediaTypes == {"AUDIO", "VIDEO", ""}

DurationCells ==
    {IntCell(-1), IntCell(29999), IntCell(30000), IntCell(200000), JunkCell, NoneCell}

Descriptions ==
    {Queen \o Separator \o TrackY,
     Queen \o Separator \o TrackY \o Separator \o Hit,
     Queen \o Separator,
     Queen \o Separator \o <<" ">>,
     Separator \o TrackY,
     Queen \o <<"-">> \o TrackY,
     TrackY,
     <<"4", "2">>,
     <<"4", "2", " ">>,
     <<"4">> \o Separator \o <<"2">>,
     <<" ", " ">>,
     <<>>,
     NoneText}

EndReasons ==
    {"NATURAL_END_OF_TRACK", "MANUALLY_SELECTED_PLAYBACK_OF_A_DIFF_ITEM",
     "PLAYBACK_MANUALLY_PAUSED", "SCRUBBING_BEGIN", "SCRUBBING_END",
     "TRACK_SKIPPED_FORWARDS", "natural_end_of_track", ""}

SourceTypes ==
    {"IPHONE", "IPAD", "MACOS", "ITUNES", "APPLE_TV", "APPLE_WATCH",
     "ANDROID", "iphone", ""}

Countries ==
    {"United States", "Canada", "United Kingdom", "Finland", "Portugal", "US", "ZZ", ""}

\* if should_exclude_record(row)
CallShouldExclude ==
    /\ pc = "call"
    /\ probe.fn = "should_exclude_record"
    /\ ~probe.done
    /\ probe' = [probe EXCEPT !.done = TRUE,
                              !.out = apple_should_exclude_record(probe.args[1])]
    /\ UNCHANGED <<pc, spotify_files, apple_rows, spotify_clean, apple_clean,
                   consolidated, mapping_summary, raised>>
    /\ UNCHANGED <<env, insights, returned>>

\* 'reason_end': map_end_reason(row.get('End Reason Type', ''))
CallMapEndReason ==
    /\ pc = "call"
    /\ probe.fn = "map_end_reason"
    /\ ~probe.done
    /\ probe' = [probe EXCEPT !.done = TRUE, !.out = map_end_reason(probe.args[1])]
    /\ UNCHANGED <<pc, spotify_files, apple_rows, spotify_clean, apple_clean,
                   consolidated, mapping_summary, raised>>
    /\ UNCHANGED <<env, insights, returned>>

\* 'platform': map_platform(row.get('Source Type', ''))
CallMapPlatform ==
    /\ pc = "call"
    /\ probe.fn = "map_platform"
    /\ ~probe.done
    /\ probe' = [probe EXCEPT !.done = TRUE, !.out = map_platform(probe.args[1])]
    /\ UNCHANGED <<pc, spotify_files, apple_rows, spotify_clean, apple_clean,
                   consolidated, mapping_summary, raised>>
    /\ UNCHANGED <<env, insights, returned>>

\* 'conn_country': map_country(row.get('Country', ''))
CallMapCountry ==
    /\ pc = "call"
    /\ probe.fn = "map_country"
    /\ ~probe.done
    /\ probe' = [probe EXCEPT !.done = TRUE, !.out = map_country(probe.args[1])]
    /\ UNCHANGED <<pc, spotify_files, apple_rows, spotify_clean, apple_clean,
                   consolidated, mapping_summary, raised>>
    /\ UNCHANGED <<env, insights, returned>>

InitFields ==
    /\ pc = "call"
    /\ spotify_files = <<>>
    /\ apple_rows = <<>>
    /\ spotify_clean = NoFile
    /\ apple_clean = NoFile
    /\ consolidated = NoFile
    /\ mapping_summary = <<>>
    /\ raised = NoneRaised
    /\ env = Env(FALSE, TRUE, 2022, 0)
    /\ insights = NoInsights
    /\ returned = NotReturned
    /\ \/ \E media \in MediaTypes, ms \in DurationCells, description \in Descriptions :
             probe = Call("should_exclude_record",
                          <<[BaseRow EXCEPT !.Media_type = media,
                                            !.Play_Duration_Milliseconds = ms,
                                            !.Track_Description = description]>>)
       \/ \E v \in EndReasons : probe = Call("map_end_reason", <<v>>)
       \/ \E v \in SourceTypes : probe = Call("map_platform", <<v>>)
       \/ \E v \in Countries : probe = Call("map_country", <<v>>)

NextFields == CallShouldExclude \/ CallMapEndReason \/ CallMapPlatform \/ CallMapCountry

SpecFields == InitFields /\ [][NextFields]_vars

\* C12: a minority-source row survives should_exclude_record exactly when its
\* media type is audio, its duration is an integer of at least 30000 ms and
\* its description parses to a non-empty song title; an all-digit description
\* and an empty part after the first " - " are excluded, 30000 ms is kept.
C12_RowSurvivesIff ==
    (probe.fn = "should_exclude_record" /\ probe.done) =>
        LET row == probe.args[1]
            song == parse_track_description(row.Track_Description).song
        IN  /\ ~probe.out <=>
                  /\ row.Media_type = "AUDIO"
                  /\ row.Play_Duration_Milliseconds.k = "int"
                  /\ row.Play_Duration_Milliseconds.v >= 30000
                  /\ song \notin {<<>>, NoneText}
            /\ row.Track_Description \in {<<"4", "2">>, Queen \o Separator} => probe.out
            /\ (/\ row.Media_type = "AUDIO"
                /\ row.Play_Duration_Milliseconds = IntCell(30000)
                /\ row.Track_Description = Queen \o Separator \o TrackY) => ~probe.out

\* C12 witness: the audio row "Queen - Y" of exactly 30000 ms is kept.
C12_Witness ==
    /\ probe.fn = "should_exclude_record" /\ probe.done /\ ~probe.out
    /\ probe.args[1].Media_type = "AUDIO"
    /\ probe.args[1].Play_Duration_Milliseconds = IntCell(30000)
    /\ probe.args[1].Track_Description = Queen \o Separator \o TrackY

\* C13: a value outside the lookup table passes through unchanged in each of
\* map_end_reason, map_platform and map_country.
C13_UnrecognizedPassThrough ==
    /\ (probe.fn = "map_end_reason" /\ probe.done
          /\ probe.args[1] \notin {"NATURAL_END_OF_TRACK",
                                   "MANUALLY_SELECTED_PLAYBACK_OF_A_DIFF_ITEM",
                                   "PLAYBACK_MANUALLY_PAUSED", "SCRUBBING_BEGIN",
                                   "SCRUBBING_END"})
          => probe.out = probe.args[1]
    /\ (probe.fn = "map_platform" /\ probe.done
          /\ probe.args[1] \notin {"IPHONE", "IPAD", "MACOS", "ITUNES",
                                   "APPLE_TV", "APPLE_WATCH"})
          => probe.out = probe.args[1]
    /\ (probe.fn = "map_country" /\ probe.done
          /\ probe.args[1] \notin {"United States", "Canada", "United Kingdom", "Finland"})
          => probe.out = probe.args[1]

-----------------------------------------------------------------------------
(* Artist resolution against a drawn majority-source file *)

Ya == <<"Y", "a">>

TargetNames ==
    {Ya, <<"Y", "A">>, <<"y", "a">>, <<"Y", "a", "b">>, <<"Y", "a", "b", "b">>, Queen}

MaxTargets == 3

\* The sequences of up to n distinct elements of S.
DistinctSeqs(S, n) ==
    {q \in SeqsUpTo(S, n) : \A i, j \in 1..Len(q) : i # j => q[i] # q[j]}

Reverse(q) == [i \in 1..Len(q) |-> q[Len(q) + 1 - i]]

\* A clean majority-source file with one record per artist name, in this order.
ArtistFile(names) ==
    File([i \in 1..Len(names) |->
            [BaseRecord EXCEPT !.master_metadata_album_artist_name = names[i]]])

\* The mapping_info of one row of the artist, with the artists of the file as
\* match targets.
MappingInfo(artist, names, top_apple_artists) ==
    convert_apple_music_record_optimized(
        [BaseRow EXCEPT !.Track_Description = artist \o Separator \o TrackY],
        load_spotify_artists(ArtistFile(names)),
        top_apple_artists).data.mapping_info

\* Two runs on files that hold the same artists in opposite record order.
CallResolve ==
    /\ pc = "call"
    /\ probe.fn = "convert_apple_music_record_optimized"
    /\ ~probe.done
    /\ probe' = [probe EXCEPT
                    !.done = TRUE,
                    !.out = <<MappingInfo(probe.args[1], probe.args[2], probe.args[3]),
                              MappingInfo(probe.args[1], Reverse(probe.args[2]),
                                          probe.args[3])>>]
    /\ UNCHANGED <<pc, spotify_files, apple_rows, spotify_clean, apple_clean,
                   consolidated, mapping_summary, raised>>
    /\ UNCHANGED <<env, insights, returned>>

InitResolve ==
    /\ pc = "call"
    /\ spotify_files = <<>>
    /\ apple_rows = <<>>
    /\ spotify_clean = NoFile
    /\ apple_clean = NoFile
    /\ consolidated = NoFile
    /\ mapping_summary = <<>>
    /\ raised = NoneRaised
    /\ env = Env(FALSE, TRUE, 2022, 0)
    /\ insights = NoInsights
    /\ returned = NotReturned
    /\ \E artist \in {Ya, <<"Y", "a", "b">>},
          names \in DistinctSeqs(TargetNames, MaxTargets) :
          \E top_apple_artists \in {<<>>, <<artist>>, <<Queen>>, <<Queen, artist>>} :
             probe = Call("convert_apple_music_record_optimized",
                          <<artist, names, top_apple_artists>>)

NextResolve == CallResolve

SpecResolve == InitResolve /\ [][NextResolve]_vars

Resolved == probe.fn = "convert_apple_music_record_optimized" /\ probe.done

IsTarget(name) == \E i \in 1..Len(probe.args[2]) : probe.args[2][i] = name

Eligible == \E i \in 1..Len(probe.args[3]) : probe.args[3][i] = probe.args[1]

\* C14: an artist name that is an exact, case-sensitive member of the target
\* set resolves to itself with confidence 1.0 and matched = true, eligible
\* or not, whatever the other targets score.
C14_ExactMatchResolvesToItself ==
    (Resolved /\ IsTarget(probe.args[1])) =>
        /\ probe.out[1].original_artist = probe.args[1]
        /\ probe.out[1].matched_artist = probe.args[1]
        /\ probe.out[1].similarity_score = ScoreOne
        /\ probe.out[1].was_matched

\* C14 witness: the eligible artist "Ya" is a target next to "YA", which also
\* scores 1.0 and precedes it in the sorted target list; it resolves to itself.
C14_Witness ==
    /\ Resolved /\ Eligible
    /\ probe.args[1] = Ya
    /\ IsTarget(Ya) /\ IsTarget(<<"Y", "A">>)
    /\ probe.out[1].matched_artist = Ya
    /\ probe.out[1].was_matched

\* The greatest similarity of the artist over the targets, 0.0 without targets.
IsBestScore(p) ==
    IF probe.args[2] = <<>> THEN p = ScoreZero
    ELSE /\ \E i \in 1..Len(probe.args[2]) :
               ScoreEqual(p, similarity(probe.args[1], probe.args[2][i]))
         /\ \A i \in 1..Len(probe.args[2]) :
               ~ScoreGreater(similarity(probe.args[1], probe.args[2][i]), p)

\* C15: a non-exact eligible artist gets the highest score over all targets as
\* confidence; from 0.8 on it resolves to a target with that score and
\* matched = true, below it keeps its name with matched = false.  For every
\* mapping, matched holds iff confidence >= 0.8, and an unmatched name is kept.
C15_FuzzyThreshold ==
    Resolved =>
        LET m == probe.out[1]
        IN  /\ (Eligible /\ ~IsTarget(probe.args[1])) =>
                  /\ IsBestScore(m.similarity_score)
                  /\ IF 5 * m.similarity_score.n >= 4 * m.similarity_score.d
                     THEN /\ m.was_matched
                          /\ IsTarget(m.matched_artist)
                          /\ ScoreEqual(similarity(probe.args[1], m.matched_artist),
                                        m.similarity_score)
                     ELSE ~m.was_matched /\ m.matched_artist = probe.args[1]
            /\ m.was_matched <=> 5 * m.similarity_score.n >= 4 * m.similarity_score.d
            /\ ~m.was_matched => m.matched_artist = m.original_artist

\* C15 witness: the eligible artist "Ya" scores exactly 0.8 against its best
\* target "Yab" and resolves to it.
C15_Witness ==
    /\ Resolved /\ Eligible /\ ~IsTarget(Ya)
    /\ probe.args[1] = Ya
    /\ 5 * probe.out[1].similarity_score.n = 4 * probe.out[1].similarity_score.d
    /\ probe.out[1].matched_artist = <<"Y", "a", "b">>
    /\ probe.out[1].was_matched

\* C16: resolution is deterministic: the same artist, target set and
\* eligibility give the same resolved name, confidence and matched flag,
\* also when several targets tie for the best score.
C16_ResolutionDeterministic ==
    Resolved => probe.out[1] = probe.out[2]

\* C16 witness: "YA" and "ya" both score 1.0 for the eligible artist "Ya",
\* and both runs resolve it to the same one.
C16_Witness ==
    /\ Resolved /\ Eligible /\ ~IsTarget(Ya)
    /\ probe.args[1] = Ya
    /\ IsTarget(<<"Y", "A">>) /\ IsTarget(<<"y", "a">>)
    /\ probe.args[2] # Reverse(probe.args[2])
    /\ probe.out[1].was_matched
    /\ probe.out[1] = probe.out[2]

-----------------------------------------------------------------------------
(* The insight generators run, and run again as time passes, on one
   consolidated corpus: SpecInsights *)

MaxCorpus == 2

MaxClock == 1

\* Records as the consolidator writes them: provider-tagged, of either source.
CorpusRecords ==
    {Tagged([BaseRecord EXCEPT !.ts = Ts("Z", 2021, 100)], "Spotify"),
     Tagged([BaseRecord EXCEPT !.ts = Ts("Z", 2022, 100)], "Spotify"),
     Tagged([BaseRecord EXCEPT !.ts = Ts("Z", 2023, 100)], "Spotify"),
     Tagged([BaseRecord EXCEPT !.ts = Ts("Off", 2021, 100)], "Spotify"),
     Tagged([BaseRecord EXCEPT !.ts = TsBad], "Spotify"),
     Tagged([BaseRecord EXCEPT !.ts = Ts("Z", 2021, 200),
                               !.master_metadata_album_artist_name = NoneText], "Spotify"),
     Tagged([BaseRecord EXCEPT !.ts = Ts("Z", 2008, 100),
                               !.master_metadata_album_artist_name = Ya], "Apple Music"),
     Tagged([BaseRecord EXCEPT !.ts = EpochStamp,
                               !.master_metadata_album_artist_name = Ya], "Apple Music")}

\* What consolidate_streaming_data can have written: a non-empty list that
\* its sort accepted and left in order.
Corpora ==
    {records \in SeqsUpTo(CorpusRecords, MaxCorpus) :
        /\ records # <<>>
        /\ ~DatetimeSortRaises(records)
        /\ \A i \in 1..(Len(records) - 1) :
              ~KeyLess("datetime", records[i + 1], records[i])}

Ran(fn, now, out) == [fn |-> fn, args |-> now, done |-> TRUE, out |-> out]

Now == <<env.year, env.clock>>

GenerateLifetimeStats ==
    /\ pc = "insights"
    /\ \E out \in {generate_lifetime_stats(consolidated, Now)} :
          /\ RunGenerator("lifetime", out)
          /\ probe' = Ran("generate_lifetime_stats", Now, out)
    /\ UNCHANGED <<pc, spotify_files, apple_rows, spotify_clean, apple_clean,
                   consolidated, mapping_summary, raised, env>>

GenerateAnnualRecaps ==
    /\ pc = "insights"
    /\ \E out \in {generate_annual_recaps(consolidated, env.year)} :
          /\ RunGenerator("annual", out)
          /\ probe' = Ran("generate_annual_recaps", Now, out)
    /\ UNCHANGED <<pc, spotify_files, apple_rows, spotify_clean, apple_clean,
                   consolidated, mapping_summary, raised, env>>

GenerateArtistSummary ==
    /\ pc = "insights"
    /\ \E out \in {generate_artist_summary(consolidated, env.year)} :
          /\ RunGenerator("artist", out)
          /\ probe' = Ran("generate_artist_summary", Now, out)
    /\ UNCHANGED <<pc, spotify_files, apple_rows, spotify_clean, apple_clean,
                   consolidated, mapping_summary, raised, env>>

\* Wall-clock time passes, into the next calendar year or not.
Tick ==
    /\ pc = "insights"
    /\ env.clock < MaxClock
    /\ \E new_year \in BOOLEAN :
          env' = [env EXCEPT !.clock = @ + 1,
                             !.year = IF new_year THEN @ + 1 ELSE @]
    /\ UNCHANGED <<pc, spotify_files, apple_rows, spotify_clean, apple_clean,
                   consolidated, mapping_summary, raised, probe, insights, returned>>

InitInsights ==
    /\ pc = "insights"
    /\ spotify_files = <<>>
    /\ apple_rows = <<>>
    /\ spotify_clean = NoFile
    /\ apple_clean = NoFile
    /\ \E records \in Corpora : consolidated = File(records)
    /\ mapping_summary = <<>>
    /\ raised = NoneRaised
    /\ probe = NoProbe
    /\ env = Env(FALSE, TRUE, 2022, 0)
    /\ insights = NoInsights
    /\ returned = NotReturned

NextInsights ==
    \/ GenerateLifetimeStats
    \/ GenerateAnnualRecaps
    \/ GenerateArtistSummary
    \/ Tick

SpecInsights == InitInsights /\ [][NextInsights]_vars

\* C17: two runs of a generator on the same corpus, at any two wall-clock
\* times, produce equal documents: a rollup that is generated again on the
\* unchanged corpus is the rollup that was there.
C17_RerunGivesSameRollups ==
    [][\A name \in {"lifetime", "annual", "artist"} :
          (consolidated' = consolidated /\ insights[name].exists /\ insights'[name].exists)
              => insights'[name] = insights[name]]_vars

\* The years whose recap counts the record: its own, when its timestamp is a
\* well-formed one of 2008 up to the year of the run.
CountedYear(record, now_year) ==
    IF WellFormed(record.ts) /\ record.ts.y >= 2008 /\ record.ts.y <= now_year
    THEN {record.ts.y} ELSE {}

RECURSIVE SumOfPlays(_, _)
SumOfPlays(recaps, years) ==
    IF years = {} THEN 0
    ELSE LET y == CHOOSE y \in years : TRUE
         IN  recaps[y].year_stats.total_plays + SumOfPlays(recaps, years \ {y})

\* C18: the annual rollup partitions the corpus by calendar year: a record
\* with a parseable timestamp of a year in [2008, current year] is counted in
\* the total_plays of the recap of that year and of no other, every other
\* record in none, so the total_plays sum to the number of in-range records;
\* the lifetime rollup's total_plays is the number of records of the corpus.
C18_AnnualPartition ==
    /\ (probe.fn = "generate_annual_recaps" /\ probe.out.raised = "none") =>
          \E records \in {consolidated.data}, recaps \in {probe.out.data} :
             /\ \A y \in DOMAIN recaps :
                   recaps[y].year_stats.total_plays =
                      Cardinality({i \in 1..Len(records) :
                                      y \in CountedYear(records[i], probe.args[1])})
             /\ \A i \in 1..Len(records) :
                   CountedYear(records[i], probe.args[1]) \subseteq DOMAIN recaps
             /\ SumOfPlays(recaps, DOMAIN recaps) =
                   Cardinality({i \in 1..Len(records) :
                                   CountedYear(records[i], probe.args[1]) # {}})
    /\ (probe.fn = "generate_lifetime_stats" /\ probe.out.raised = "none") =>
          probe.out.data.content_stats.total_plays = Len(consolidated.data)

\* C18 witness: two records of one artist a year apart, of 2021 and
\* 2022: each year's recap shows total_plays = 1, the lifetime rollup 2.
C18_Witness ==
    /\ probe.fn = "generate_annual_recaps"
    /\ Len(consolidated.data) = 2
    /\ insights.annual.exists /\ insights.lifetime.exists
    /\ DOMAIN insights.annual.data = {2021, 2022}
    /\ \A y \in {2021, 2022} : insights.annual.data[y].year_stats.total_plays = 1
    /\ insights.lifetime.data.content_stats.total_plays = 2
    /\ insights.lifetime.data.content_stats.unique_artists = 1

\* C29: once the lifetime rollup of a non-empty corpus is written, its
\* concentration metrics are nested percentages:
\* 0 <= top_1 <= top_5 <= top_10 <= 100, whatever the number of artists.
C29_ConcentrationNested ==
    (insights.lifetime.exists /\ insights.lifetime.data.metadata.total_records > 0) =>
        \E metrics \in {insights.lifetime.data.diversity_metrics} :
           /\ PercentLeq(ZeroPercent, metrics.top_1_artist_concentration)
           /\ PercentLeq(metrics.top_1_artist_concentration,
                         metrics.top_5_artist_concentration)
           /\ PercentLeq(metrics.top_5_artist_concentration,
                         metrics.top_10_artist_concentration)
           /\ PercentLeq(metrics.top_10_artist_concentration, Percent(1, 1))

\* The artist and track of a milestone are those of an event of the corpus
\* at the milestone's instant.
MilestoneOfAnEvent(milestone, records) ==
    \E i \in 1..Len(records) :
       /\ Dated(records[i])
       /\ parse_timestamp(records[i].ts) = parse_timestamp(milestone.timestamp)
       /\ records[i].master_metadata_album_artist_name = milestone.artist
       /\ records[i].master_metadata_track_name = milestone.track

\* C30: once the lifetime rollup of a corpus written by the consolidator is
\* written, the artist and track of first_track_played are those of an event
\* at the reported first instant, and those of most_recent_track of an event
\* at the reported latest instant.
C30_MilestonesConsistent ==
    (insights.lifetime.exists /\ insights.lifetime.data.metadata.total_records > 0) =>
        /\ MilestoneOfAnEvent(insights.lifetime.data.milestones.first_track_played,
                              consolidated.data)
        /\ MilestoneOfAnEvent(insights.lifetime.data.milestones.most_recent_track,
                              consolidated.data)

-----------------------------------------------------------------------------
(* wrapped_reimagined.py: process_all runs the stages through run_script *)

AllRecords ==
    {BaseRecord,
     [BaseRecord EXCEPT !.ts = Ts("Off", 2021, 100)],
     [BaseRecord EXCEPT !.ts = TsNull],
     [BaseRecord EXCEPT !.conn_country = "ZZ"]}

AllRows ==
    {BaseRow,
     [BaseRow EXCEPT !.Skip_Count = JunkCell],
     [BaseRow EXCEPT !.Date_Played = JunkDate]}

\* A clean minority-source file that an earlier run left in the output directory.
StaleAppleClean ==
    File(<<Tagged([BaseRecord EXCEPT !.ts = Ts("Z", 2021, 100),
                                     !.master_metadata_album_artist_name = Ya],
                  "Apple Music")>>)

Succeeded_Always(code) == TRUE

\* run_script: True for return code 0.
Succeeded(code) == code = "0"

\* process_all returns False.
ReturnFalse ==
    /\ pc' = "done"
    /\ returned' = [returned EXCEPT !.process_all = "False"]

\* Step 1.  Without input files no script is run.  spotify_data_cleaner.py
\* ends with return code 1 on an exception that escapes process_spotify_data.
process_spotify ==
    /\ pc = "process_spotify"
    /\ IF spotify_files = <<>>
       THEN /\ ReturnFalse
            /\ UNCHANGED <<spotify_clean, raised>>
       ELSE \E out \in {process_spotify_data(spotify_files)} :
              /\ raised' = [raised EXCEPT !.spotify = out.raised]
              /\ spotify_clean' = IF out.raised = "none" THEN File(out.data)
                                  ELSE spotify_clean
              /\ IF out.raised = "none"
                 THEN /\ returned' = [returned EXCEPT !.spotify = "0"]
                      /\ pc' = IF env.skip_apple THEN "consolidate_data"
                               ELSE "process_apple"
                 ELSE /\ returned' = [returned EXCEPT !.spotify = "1",
                                                      !.process_all = "False"]
                      /\ pc' = "done"
    /\ UNCHANGED <<spotify_files, apple_rows, apple_clean, consolidated,
                   mapping_summary, probe, env, insights>>

\* Step 2, unless skip_apple.  process_all goes on whatever process_apple
\* returns.  apple_music_cleaner.py catches the exception of a row, returns
\* without writing and ends with return code 0.
process_apple ==
    /\ pc = "process_apple"
    /\ IF ~env.apple_file \/ ~spotify_clean.exists
       THEN UNCHANGED <<apple_clean, mapping_summary, raised, returned>>
       ELSE \E out \in {process_apple_music_csv(apple_rows, spotify_clean)} :
              /\ raised' = [raised EXCEPT !.apple = out.raised]
              /\ apple_clean' = IF out.raised = "none" THEN File(out.data.records)
                                ELSE apple_clean
              /\ mapping_summary' = IF out.raised = "none" THEN out.data.mappings
                                    ELSE mapping_summary
              /\ returned' = [returned EXCEPT !.apple = "0"]
    /\ pc' = "consolidate_data"
    /\ UNCHANGED <<spotify_files, apple_rows, spotify_clean, consolidated,
                   probe, env, insights>>

\* Step 3.  Both clean files must exist.  consolidate_streaming_data.py
\* returns normally when it finds no data; its sort is outside any try.
consolidate_data ==
    /\ pc = "consolidate_data"
    /\ IF ~spotify_clean.exists \/ ~apple_clean.exists
       THEN /\ ReturnFalse
            /\ UNCHANGED <<consolidated, raised>>
       ELSE \E out \in {consolidate_streaming_data(spotify_clean, apple_clean)} :
              /\ raised' = [raised EXCEPT !.consolidate = out.raised]
              /\ consolidated' = IF out.raised = "none" THEN File(out.data)
                                 ELSE consolidated
              /\ IF out.raised = "TypeError"
                 THEN /\ returned' = [returned EXCEPT !.consolidate = "1",
                                                      !.process_all = "False"]
                      /\ pc' = "done"
                 ELSE /\ returned' = [returned EXCEPT !.consolidate = "0"]
                      /\ pc' = "generate_insights"
    /\ UNCHANGED <<spotify_files, apple_rows, spotify_clean, apple_clean,
                   mapping_summary, probe, env, insights>>

GeneratorCode(out) == IF out.raised = "none" THEN "0" ELSE "1"

Written(file, out) ==
    IF out.raised = "none" /\ out.data # <<>> THEN File(out.data) ELSE file

\* Step 4.  The three generators are all run; success is three return codes 0.
generate_insights ==
    /\ pc = "generate_insights"
    /\ IF ~consolidated.exists
       THEN /\ ReturnFalse
            /\ UNCHANGED insights
       ELSE \E lifetime \in {generate_lifetime_stats(consolidated, Now)},
               annual \in {generate_annual_recaps(consolidated, env.year)},
               artist \in {generate_artist_summary(consolidated, env.year)} :
              /\ insights' = [lifetime |-> Written(insights.lifetime, lifetime),
                              annual |-> Written(insights.annual, annual),
                              artist |-> Written(insights.artist, artist)]
              /\ returned' =
                    [returned EXCEPT
                        !.lifetime = GeneratorCode(lifetime),
                        !.annual = GeneratorCode(annual),
                        !.artist = GeneratorCode(artist),
                        !.process_all =
                            IF /\ Succeeded(GeneratorCode(lifetime))
                               /\ Succeeded(GeneratorCode(annual))
                               /\ Succeeded(GeneratorCode(artist))
                            THEN "True" ELSE "False"]
              /\ pc' = "done"
    /\ UNCHANGED <<spotify_files, apple_rows, spotify_clean, apple_clean,
                   consolidated, mapping_summary, raised, probe, env>>

\* One call of process_all: the input directory holds no, or one, majority-
\* source file and no, or one, minority-source CSV; the output directory is
\* empty but for a clean minority-source file that may be left from before.
InitAll ==
    /\ pc = "process_spotify"
    /\ spotify_files \in
          {<<>>} \cup {<<file>> : file \in SeqsUpTo(AllRecords, MaxFileLen)}
    /\ \E skip_apple, apple_file \in BOOLEAN :
          /\ env = Env(skip_apple, apple_file, 2022, 0)
          /\ apple_rows \in IF apple_file THEN SeqsUpTo(AllRows, MaxRows) ELSE {<<>>}
    /\ spotify_clean = NoFile
    /\ apple_clean \in {NoFile, StaleAppleClean}
    /\ consolidated = NoFile
    /\ mapping_summary = <<>>
    /\ raised = NoneRaised
    /\ probe = NoProbe
    /\ insights = NoInsights
    /\ returned = NotReturned

NextAll ==
    \/ process_spotify
    \/ process_apple
    \/ consolidate_data
    \/ generate_insights

SpecAll == InitAll /\ [][NextAll]_vars

\* C19: when process_spotify succeeds, no Apple Music file exists (or
\* skip_apple is set) and there is no clean Apple file, process_all runs the
\* consolidation on the Spotify-only data, generates the insights and
\* returns success.
C19_DegradedModeSucceeds ==
    (/\ pc = "done"
     /\ Succeeded(returned.spotify)
     /\ env.skip_apple \/ ~env.apple_file
     /\ ~apple_clean.exists)
        => /\ Succeeded(returned.consolidate)
           /\ consolidated.exists
           /\ returned.process_all = "True"

\* C20: a stage script that fails to load its input or to write its output
\* makes run_script return False: process_all does not go on to a later stage,
\* and does not report success, after a stage that produced no output.
C20_FailuresSurfaced ==
    /\ Succeeded(returned.consolidate) => consolidated.exists
    /\ Succeeded(returned.lifetime) => insights.lifetime.exists
    /\ Succeeded(returned.annual) => insights.annual.exists
    /\ Succeeded(returned.artist) => insights.artist.exists
    /\ returned.process_all = "True" =>
          /\ consolidated.exists
          /\ insights.lifetime.exists /\ insights.annual.exists /\ insights.artist.exists

Started(stage) == returned[stage] # "none"

InsightScripts == {"lifetime", "annual", "artist"}

\* C21: in every run of process_all the stages start in the order Spotify
\* normalizer, Apple normalizer, consolidation, insight generation; the
\* consolidation is started only after the Spotify stage reported success,
\* the insight generation only after the consolidation reported success, and
\* process_all returns True only if the Spotify stage, the consolidation and
\* the three insight scripts reported success.
C21_StageOrderAndGating ==
    /\ [](/\ Started("apple") => returned.spotify = "0"
          /\ Started("consolidate") => returned.spotify = "0"
          /\ \A script \in InsightScripts :
                Started(script) => returned.consolidate = "0"
          /\ returned.process_all = "True" =>
                /\ returned.spotify = "0"
                /\ returned.consolidate = "0"
                /\ \A script \in InsightScripts : returned[script] = "0")
    /\ [][/\ returned'.spotify # returned.spotify =>
                \A stage \in {"apple", "consolidate"} \cup InsightScripts :
                   returned'[stage] = "none"
          /\ returned'.apple # returned.apple =>
                \A stage \in {"consolidate"} \cup InsightScripts :
                   returned'[stage] = "none"
          /\ returned'.consolidate # returned.consolidate =>
                \A script \in InsightScripts : returned'[script] = "none"]_vars

\* C21 witness: process_all has returned True after all six scripts ran.
C21_Witness ==
    /\ pc = "done"
    /\ returned.process_all = "True"
    /\ \A stage \in {"spotify", "apple", "consolidate"} \cup InsightScripts :
          returned[stage] = "0"

-----------------------------------------------------------------------------
(* The majority-source normalizer on two files that share one large group *)

\* One run of n plays of a track, cut into two files.
InitCorpus ==
    /\ pc = "spotify"
    /\ \E n \in (GroupThreshold + 1)..(GroupThreshold + MaxOver),
          gap \in {0, RapidGapSeconds - 1} :
          \E rapid \in RapidCounts(n), cut \in {0, 1, n \div 2, n - 1, n} :
             spotify_files = <<SubSeq(Run(TrackY, n, rapid, gap, "asc"), 1, cut),
                               SubSeq(Run(TrackY, n, rapid, gap, "asc"), cut + 1, n)>>
    /\ apple_rows = <<>>
    /\ spotify_clean = NoFile
    /\ apple_clean = NoFile
    /\ consolidated = NoFile
    /\ mapping_summary = <<>>
    /\ raised = NoneRaised
    /\ env = Env(FALSE, TRUE, 2022, 0)
    /\ insights = NoInsights
    /\ returned = NotReturned
    /\ probe = NoProbe

NextCorpus == ProcessSpotify

SpecCorpus == InitCorpus /\ [][NextCorpus]_vars

\* C22: whatever the distribution of a group's records over the input files,
\* the output of process_spotify_data holds no (artist, track) group of more
\* than 100 records whose rapid plays exceed half of the group size.
C22_VerdictOverWholeCorpus ==
    (pc # "spotify" /\ spotify_clean.exists) =>
        \E I \in {PlaysOf(spotify_clean.data, Queen, TrackY)} :
           ~(/\ Cardinality(I) > 100
             /\ 2 * RapidPairs(spotify_clean.data, I) > Cardinality(I))

-----------------------------------------------------------------------------
(* The consolidator on clean files whose events share instants *)

TieSpotifyRecords ==
    {Tagged([BaseRecord EXCEPT !.ts = Ts("Z", 2021, 100)], "Spotify"),
     Tagged([BaseRecord EXCEPT !.ts = Ts("Z", 2021, 100),
                               !.master_metadata_track_name = Hit], "Spotify"),
     Tagged([BaseRecord EXCEPT !.ts = Ts("Z", 2020, 100)], "Spotify"),
     Tagged([BaseRecord EXCEPT !.ts = TsBad], "Spotify")}

TieAppleRecords ==
    {Tagged([BaseRecord EXCEPT !.ts = Ts("Z", 2021, 100)], "Apple Music"),
     Tagged([BaseRecord EXCEPT !.ts = Ts("Z", 2021, 100),
                               !.master_metadata_track_name = Hit], "Apple Music"),
     Tagged([BaseRecord EXCEPT !.ts = EpochStamp], "Apple Music")}

\* What a cleaner can have written: a list its sort on the ts string left in order.
CleanFiles(S, n) ==
    {File(records) : records \in
        {r \in SeqsUpTo(S, n) :
            \A i \in 1..(Len(r) - 1) : ~KeyLess("str", r[i + 1], r[i])}}

InitTies ==
    /\ pc = "consolidate"
    /\ spotify_files = <<>>
    /\ apple_rows = <<>>
    /\ spotify_clean \in CleanFiles(TieSpotifyRecords, MaxFileLen)
    /\ apple_clean \in CleanFiles(TieAppleRecords, MaxRows)
    /\ consolidated = NoFile
    /\ mapping_summary = <<>>
    /\ raised = NoneRaised
    /\ env = Env(FALSE, TRUE, 2022, 0)
    /\ insights = NoInsights
    /\ returned = NotReturned
    /\ probe = NoProbe

NextTies == Consolidate

SpecTies == InitTies /\ [][NextTies]_vars

\* The events of a list whose timestamp parses to a given instant.
AtInstant(records, dt) ==
    SelectSeq(records, LAMBDA r : parse_timestamp(r.ts) = dt)

\* C23: consolidated events with equal parsed timestamps appear in their
\* original relative order: the Spotify events, in their input order, before
\* the Apple Music events, in theirs.
C23_StableTieBreak ==
    (pc = "insights" /\ consolidated.exists) =>
        \A i \in 1..Len(consolidated.data) :
           \E dt \in {parse_timestamp(consolidated.data[i].ts)} :
              AtInstant(consolidated.data, dt) =
                 AtInstant(spotify_clean.data, dt) \o AtInstant(apple_clean.data, dt)

\* C23 witness: two Spotify and two Apple Music events of one instant, the
\* two of a source for different tracks, are consolidated.
C23_Witness ==
    /\ pc = "insights" /\ consolidated.exists
    /\ Len(consolidated.data) = 4
    /\ \A i \in 1..4 : consolidated.data[i].ts = Ts("Z", 2021, 100)
    /\ consolidated.data[1] # consolidated.data[2]
    /\ consolidated.data[3] # consolidated.data[4]
    /\ consolidated.data[2].provider = "Spotify"
    /\ consolidated.data[3].provider = "Apple Music"

-----------------------------------------------------------------------------
(* More claims about the artist resolution, under SpecResolve *)

\* C24: a non-exact artist name that is not among the eligible top artists is
\* never fuzzy-matched: it is kept unchanged, with matched = false and
\* confidence 0.0, also when a target scores 0.8 or more against it.
C24_NotEligibleNotMatched ==
    (Resolved /\ ~IsTarget(probe.args[1]) /\ ~Eligible) =>
        /\ probe.out[1].original_artist = probe.args[1]
        /\ probe.out[1].matched_artist = probe.args[1]
        /\ probe.out[1].similarity_score = ScoreZero
        /\ ~probe.out[1].was_matched

\* C24 witness: "Ya" is not eligible, the target "Yab" scores 0.8 against it,
\* and it is kept.
C24_Witness ==
    /\ Resolved /\ ~Eligible /\ ~IsTarget(Ya)
    /\ probe.args[1] = Ya
    /\ IsTarget(<<"Y", "a", "b">>)
    /\ MeetsThreshold(similarity(Ya, <<"Y", "a", "b">>))
    /\ probe.out[1].matched_artist = Ya
    /\ ~probe.out[1].was_matched

-----------------------------------------------------------------------------
(* get_top_artists_by_play_count on a CSV of about TopArtists artists: SpecTop *)

\* The CSVs hold up to TopArtists + MaxExtra artists.
MaxExtra == 2

NameChars == <<"a", "b", "Q", "u", "e", "n", "Y", "H">>

\* The name of the i-th artist.
ArtistName(i) ==
    <<"a", NameChars[((i - 1) \div Len(NameChars)) + 1],
           NameChars[((i - 1) % Len(NameChars)) + 1]>>

PlayRow(description, ms) ==
    [BaseRow EXCEPT !.Track_Description = description,
                    !.Play_Duration_Milliseconds = IntCell(ms)]

\* The play duration of the single row of artist i.
RowDuration(pattern, i) ==
    CASE pattern = "ascending"  -> MinPlayMs + i
      [] pattern = "descending" -> MinPlayMs + 100 - i
      [] OTHER                  -> MinPlayMs

\* One row per artist; then a second row of one artist, a row that is too
\* short to be kept, of an artist of its own, and a long row without artist.
TopCsv(n, pattern, again, more) ==
    [i \in 1..n |-> PlayRow(ArtistName(i) \o Separator \o TrackY, RowDuration(pattern, i))]
    \o (IF again = 0 THEN <<>>
        ELSE <<PlayRow(ArtistName(again) \o Separator \o Hit, MinPlayMs + 100)>>)
    \o (IF more
        THEN <<PlayRow(ArtistName(n + 1) \o Separator \o TrackY, MinPlayMs - 1),
               PlayRow(TrackY, 10 * MinPlayMs)>>
        ELSE <<>>)

CallTopArtists ==
    /\ pc = "call"
    /\ probe.fn = "get_top_artists_by_play_count"
    /\ ~probe.done
    /\ probe' = [probe EXCEPT
                    !.done = TRUE,
                    !.out = get_top_artists_by_play_count(probe.args, TopArtists)]
    /\ UNCHANGED <<pc, spotify_files, apple_rows, spotify_clean, apple_clean,
                   consolidated, mapping_summary, raised, env, insights, returned>>

InitTop ==
    /\ pc = "call"
    /\ spotify_files = <<>>
    /\ apple_rows = <<>>
    /\ spotify_clean = NoFile
    /\ apple_clean = NoFile
    /\ consolidated = NoFile
    /\ mapping_summary = <<>>
    /\ raised = NoneRaised
    /\ env = Env(FALSE, TRUE, 2022, 0)
    /\ insights = NoInsights
    /\ returned = NotReturned
    /\ \E n \in (TopArtists - 1)..(TopArtists + MaxExtra),
          pattern \in {"ascending", "descending", "equal"},
          more \in BOOLEAN :
          \E again \in {0, 1, n} :
             probe = Call("get_top_artists_by_play_count", TopCsv(n, pattern, again, more))

NextTop == CallTopArtists

SpecTop == InitTop /\ [][NextTop]_vars

TopRan == probe.fn = "get_top_artists_by_play_count" /\ probe.done

\* The rows of the CSV that pass the exclusion rule and have the artist.
RowsOf(rows, artist) ==
    {i \in 1..Len(rows) :
        /\ ~apple_should_exclude_record(rows[i])
        /\ parse_track_description(rows[i].Track_Description).artist = artist}

RECURSIVE DurationOver(_, _)
DurationOver(rows, I) ==
    IF I = {} THEN 0
    ELSE LET i == CHOOSE i \in I : TRUE
         IN  rows[i].Play_Duration_Milliseconds.v + DurationOver(rows, I \ {i})

-----------------------------------------------------------------------------
(* parse_track_description on descriptions made of a few pieces: SpecParse *)

MaxPieces == 5

Pieces == {<<"Q">>, <<"Y">>, <<"4">>, <<" ">>, Separator}

RECURSIVE Joined(_, _)
Joined(pieces, n) == IF n = 0 THEN <<>> ELSE Joined(pieces, n - 1) \o pieces[n]

CallParseTrackDescription ==
    /\ pc = "call"
    /\ probe.fn = "parse_track_description"
    /\ ~probe.done
    /\ probe' = [probe EXCEPT !.done = TRUE,
                              !.out = parse_track_description(probe.args)]
    /\ UNCHANGED <<pc, spotify_files, apple_rows, spotify_clean, apple_clean,
                   consolidated, mapping_summary, raised, env, insights, returned>>

InitParse ==
    /\ pc = "call"
    /\ spotify_files = <<>>
    /\ apple_rows = <<>>
    /\ spotify_clean = NoFile
    /\ apple_clean = NoFile
    /\ consolidated = NoFile
    /\ mapping_summary = <<>>
    /\ raised = NoneRaised
    /\ env = Env(FALSE, TRUE, 2022, 0)
    /\ insights = NoInsights
    /\ returned = NotReturned
    /\ \/ probe = Call("parse_track_description", NoneText)
       \/ \E pieces \in SeqsUpTo(Pieces, MaxPieces) :
             probe = Call("parse_track_description", Joined(pieces, Len(pieces)))

NextParse == CallParseTrackDescription

SpecParse == InitParse /\ [][NextParse]_vars

Parsed == probe.fn = "parse_track_description" /\ probe.done

\* The text without its leading and trailing blanks.
Trimmed(t) ==
    IF \A i \in 1..Len(t) : t[i] = " " THEN <<>>
    ELSE SubSeq(t, CHOOSE i \in 1..Len(t) : t[i] # " " /\ \A j \in 1..(i - 1) : t[j] = " ",
                   CHOOSE i \in 1..Len(t) : t[i] # " " /\ \A j \in (i + 1)..Len(t) : t[j] = " ")

\* The places where " - " starts.
Cuts(t) == {i \in 1..(Len(t) - 2) : t[i] = " " /\ t[i + 1] = "-" /\ t[i + 2] = " "}

\* C26: parse_track_description cuts at the first " - " only: the artist is
\* the text before it and the song all the text after it, later separators
\* included, both without surrounding blanks; without a separator the whole
\* text is the song and the artist is None; an empty or digit-only
\* description gives neither.
C26_SplitOnFirstSeparator ==
    Parsed =>
        \E d \in {probe.args} :
           IF d = NoneText \/ d = <<>> \/ (\A i \in 1..Len(d) : d[i] \in {"2", "4"})
           THEN probe.out.artist = NoneText /\ probe.out.song = NoneText
           ELSE IF Cuts(d) = {}
           THEN probe.out.artist = NoneText /\ probe.out.song = Trimmed(d)
           ELSE \E i \in Cuts(d) :
                   /\ \A j \in Cuts(d) : i <= j
                   /\ probe.out.artist = Trimmed(SubSeq(d, 1, i - 1))
                   /\ probe.out.song = Trimmed(SubSeq(d, i + 3, Len(d)))

\* C26 witness: "Q - Y - Q" gives the artist "Q" and the song "Y - Q".
C26_Witness ==
    /\ Parsed
    /\ probe.args = <<"Q">> \o Separator \o <<"Y">> \o Separator \o <<"Q">>
    /\ probe.out.artist = <<"Q">>
    /\ probe.out.song = <<"Y">> \o Separator \o <<"Q">>

-----------------------------------------------------------------------------
(* More claims about the timestamps, under SpecTimestamps *)

\* The call is convert_timestamp on a calendar date and an hour text.
ConvertedValidDate ==
    /\ probe.fn = "convert_timestamp" /\ probe.done
    /\ probe.args[1].k = "ymd"
    /\ probe.args[1].m \in 1..12
    /\ probe.args[1].d \in 1..DaysIn(probe.args[1].y, probe.args[1].m)
    /\ probe.args[2] # NoneHours

\* C27: for a valid YYYYMMDD date convert_timestamp gives that date at the
\* first hour of the hour list, minutes and seconds zero, and midnight of
\* that date when the hour does not parse or lies outside 0..23.
C27_FirstHourOrMidnight ==
    ConvertedValidDate =>
        \E date \in {probe.args[1]}, first \in {probe.args[2][1]} :
           probe.out =
              Ok(Stamp(date.y, date.m, date.d,
                       IF first.k = "int" /\ first.v \in 0..23 THEN first.v ELSE 0))

\* C27 witness: the hours "16, 17" on 2021-03-05 give 16:00:00 of that day.
C27_Witness ==
    /\ ConvertedValidDate
    /\ probe.args = <<DateCell(2021, 3, 5), <<IntCell(16), IntCell(17)>>>>
    /\ probe.out.raised = "none"
    /\ probe.out.data = Ts("Z", 2021, ((31 + 28 + 4) * 24 + 16) * 3600)

-----------------------------------------------------------------------------
(* The top lists of the rollups on corpora of about TopListSize keys: SpecRank *)

\* The i-th play of a corpus of distinct tracks, all of 2021, by one artist or
\* by an artist of its own.
RankPlay(kind, i) ==
    Tagged([BaseRecord EXCEPT
               !.ts = Ts("Z", 2021, 100 + i),
               !.master_metadata_track_name = ArtistName(i),
               !.master_metadata_album_artist_name =
                   IF kind = "one artist" THEN Queen ELSE ArtistName(i),
               !.master_metadata_album_album_name =
                   IF i % 3 = 0 THEN null ELSE IF i % 3 = 1 THEN "Jazz" ELSE "Live"],
           "Spotify")

\* Two plays of a track titled Unknown, before the others.
UnknownPlay(kind, i) ==
    [RankPlay(kind, 1) EXCEPT !.ts = Ts("Z", 2021, i),
                              !.master_metadata_track_name = UnknownText]

\* n plays of n tracks in time order; then, in 2022, one of them again.
RankCorpus(kind, n, again, unknown) ==
    (IF unknown THEN <<UnknownPlay(kind, 1), UnknownPlay(kind, 2)>> ELSE <<>>)
    \o [i \in 1..n |-> RankPlay(kind, i)]
    \o (IF again = 0 THEN <<>>
        ELSE <<[RankPlay(kind, again) EXCEPT !.ts = Ts("Z", 2022, 100)]>>)

InitRank ==
    /\ pc = "insights"
    /\ spotify_files = <<>>
    /\ apple_rows = <<>>
    /\ spotify_clean = NoFile
    /\ apple_clean = NoFile
    /\ \E kind \in {"one artist", "many artists"}, extra \in -1..MaxExtra,
          unknown \in BOOLEAN :
          \E n \in {(IF kind = "one artist" THEN ArtistTopListSize ELSE TopListSize)
                        + extra} :
             \E again \in {0, 1, n} :
                consolidated = File(RankCorpus(kind, n, again, unknown))
    /\ mapping_summary = <<>>
    /\ raised = NoneRaised
    /\ probe = NoProbe
    /\ env = Env(FALSE, TRUE, 2022, 0)
    /\ insights = NoInsights
    /\ returned = NotReturned

NextRank ==
    \/ GenerateLifetimeStats
    \/ GenerateAnnualRecaps
    \/ GenerateArtistSummary

SpecRank == InitRank /\ [][NextRank]_vars

\* The plays a top list counts for its keys, out of the plays at I.
KeyedPlays(records, I, field) == {i \in I : TruthyField(records[i], field)}

PlaysOfKey(records, I, field, key) ==
    {i \in KeyedPlays(records, I, field) : records[i][field] = key}

FirstPlayOf(records, I, field, key) ==
    CHOOSE i \in PlaysOfKey(records, I, field, key) :
        \A j \in PlaysOfKey(records, I, field, key) : i <= j

\* A list of (key, count) pairs is a top-n list of the field over the plays
\* at I: at most n pairs, each the count of its key, counts non-increasing,
\* no left-out key with more plays than a listed one, and equal counts in
\* the order of the keys' first plays.
RankedRight(list, records, I, field, n) ==
    WithValue({records[i][field] : i \in KeyedPlays(records, I, field)}, LAMBDA keys :
      WithValue([k \in keys |-> Cardinality(PlaysOfKey(records, I, field, k))],
        LAMBDA count :
          WithValue([k \in keys |-> FirstPlayOf(records, I, field, k)], LAMBDA first :
            /\ Len(list) <= n
            /\ \A p \in 1..Len(list) :
                  /\ list[p][1] \in keys
                  /\ list[p][2] = count[list[p][1]]
            /\ \A p, q \in 1..Len(list) :
                  p < q =>
                     /\ list[p][1] # list[q][1]
                     /\ list[p][2] >= list[q][2]
                     /\ list[p][2] = list[q][2] => first[list[p][1]] < first[list[q][1]]
            /\ \A k \in keys \ {list[p][1] : p \in 1..Len(list)} :
                  \A p \in 1..Len(list) : count[k] <= list[p][2])))

ContentFields ==
    [top_artists |-> "master_metadata_album_artist_name",
     top_tracks |-> "master_metadata_track_name",
     top_albums |-> "master_metadata_album_album_name"]

====

